---- MODULE Spec2Model ----
(***************************************************************************)
(* Model of the configurable ESP32 sensor hub (the sketch with alarms and  *)
(* scheduled webhooks): the in-memory registries of DS18B20 sensors,       *)
(* alarms and webhooks, the persistent store behind them, and the control  *)
(* loop  handleClient -> readSensors -> checkAlarms ->                     *)
(* sendScheduledWebhooks -> delay.                                         *)
(*                                                                         *)
(* Conventions.                                                            *)
(*  - float values (readings, thresholds) are integers;                    *)
(*  - millis() is `clock`, an unsigned counter of ClockBits bits; every    *)
(*    subtraction of two timestamps is taken modulo ClockMod, as unsigned  *)
(*    long arithmetic does modulo 2^32 on the device;                      *)
(*  - the arrays with their counts are sequences (slots above the count    *)
(*    are never read by the code);                                         *)
(*  - variables whose comment says "history" are not program state: they   *)
(*    record what a step did (requests sent, locals of the evaluation,     *)
(*    real time elapsed) so that properties can be stated over states.     *)
(***************************************************************************)
EXTENDS Integers, Sequences, FiniteSets, TLC

(***************************************************************************)
(* Program constants                                                       *)
(***************************************************************************)
MAX_DS18B20_SENSORS == 8
MAX_ALARMS == 16
MAX_WEBHOOKS == 8

\* DallasTemperature's "no device answered" temperature
DEVICE_DISCONNECTED_C == -127
\* lastReading of a sensor that was never sampled
INITIAL_READING == -127
\* what getSensorValue returns when it cannot resolve the sensor
UNRESOLVED_VALUE == -999
\* defaults used by loadConfiguration and the add handlers
DEFAULT_MIN == -999
DEFAULT_MAX == 999
DEFAULT_COOLDOWN == 60000

SENSOR_DS18B20 == "SENSOR_DS18B20"
SENSOR_DHT_TEMP == "SENSOR_DHT_TEMP"
SENSOR_DHT_HUM == "SENSOR_DHT_HUM"
SENSOR_LIGHT == "SENSOR_LIGHT"
SENSOR_MOTION == "SENSOR_MOTION"
SensorType == {SENSOR_DS18B20, SENSOR_DHT_TEMP, SENSOR_DHT_HUM, SENSOR_LIGHT, SENSOR_MOTION}

(***************************************************************************)
(* Bounds of the model                                                     *)
(***************************************************************************)
\* width of the millisecond counter (32 on the device)
ClockBits == 3
\* the largest cooldown a request of the model carries
MaxCooldown == 2
\* the longest a blocking HTTP POST takes, in clock units
MaxSendDelay == 1
\* the longest one loop iteration's delay takes, in clock units
MaxLoopStep == 2
\* the longest setup() takes (WiFi connect), in clock units
MaxBootTime == 2
\* how many alarms / sensors / webhooks the requests of a specification build up
MaxModelAlarms == 1
MaxModelSensors == 1
MaxModelWebhooks == 1
\* how many alarms / sensors / webhooks the registry specification builds up
MaxRegistryAlarms == 3
MaxRegistrySensors == 2
MaxRegistryWebhooks == 1
\* the largest update interval a request of the model carries
MaxInterval == 2
\* the fixed-configuration sketches: width of their millisecond counter, and
\* how many milliseconds one unit of it stands for
LegacyClockBits == 4
MsPerClock == 30000

ClockMod == 2 ^ ClockBits
\* history counters of elapsed real time stop counting here
ElapsedCap == (IF MaxCooldown > MaxInterval THEN MaxCooldown ELSE MaxInterval) + 2

\* Optional values: a JSON member of a request, a key of the store and the result
\* of a DHT read are Some(v), or Absent (no such member, no such key, NaN).
Absent == <<>>
Some(v) == <<v>>
\* history: no notification since the alarm was created / loaded
Never == -1

(***************************************************************************)
(* State                                                                   *)
(***************************************************************************)
VARIABLES
    ds18b20List,     \* registered DS18B20 sensors (ds18b20List[0..ds18b20Count-1])
    alarms,          \* alarms[0..alarmCount-1]
    webhooks,        \* webhooks[0..webhookCount-1]
    dhtTemperature,  \* cached DHT readings
    dhtHumidity,
    motionDetected,
    lightLevel,
    clock,           \* millis()
    prefs,           \* the Preferences namespace "sensor-hub"
    pc,              \* where the sketch is: "setup", or the next call of loop()
    response,        \* history: the request handleClient just served and its answer
                     \* (until readSensors ran)
    outbox,          \* history: the outbound requests of the phase that just ran
    evalLog,         \* history: the locals of the checkAlarms that just ran, per alarm
    cool,            \* history: per alarm, real time since its last notification
    sent,            \* history: per webhook, real time since its last scheduled update
    sampled          \* history: what the drivers returned to the readSensors that
                     \* just ran (until checkAlarms ran)

\* the two stamps of the fixed-configuration sketches (esp32_webserver_webhook.ino,
\* esp32_configurable_sensors.ino); the sensor hub has no such variables and
\* leaves them alone
VARIABLES
    lastMotionWebhook,   \* millis() after the last motion webhook
    lastTempCheck        \* millis() after the last five-minute temperature check

vars == <<ds18b20List, alarms, webhooks, dhtTemperature, dhtHumidity, motionDetected,
          lightLevel, clock, prefs, pc, response, outbox, evalLog, cool, sent, sampled,
          lastMotionWebhook, lastTempCheck>>

legacy == <<lastMotionWebhook, lastTempCheck>>

registry == <<ds18b20List, alarms, webhooks>>
readings == <<dhtTemperature, dhtHumidity, motionDetected, lightLevel>>
history == <<outbox, evalLog, cool>>

(***************************************************************************)
(* Helpers                                                                 *)
(***************************************************************************)
Min(a, b) == IF a < b THEN a ELSE b

\* mutant: a difference that would be negative is taken for 0
USubSaturating(a, b) == IF a >= b THEN a - b ELSE 0

\* a - b in unsigned arithmetic of ClockBits bits
USub(a, b) == (a - b) % ClockMod

\* mutant: the last entry is moved into the hole
RemoveAtSwapLast(s, i) ==
    [j \in 1..(Len(s) - 1) |-> IF j = i THEN s[Len(s)] ELSE s[j]]

\* mutant: the count is decremented, the entries are not shifted
RemoveAtCountOnly(s, i) == SubSeq(s, 1, Len(s) - 1)

\* s without its i-th element: the shift loop  for (j = i; j < count-1; j++) a[j] = a[j+1]
RemoveAt(s, i) == [j \in 1..(Len(s) - 1) |-> IF j < i THEN s[j] ELSE s[j + 1]]

\* mutant: a scan that finds nothing ends on the last entry
FirstMatchOrLast(hits) ==
    IF \E i \in 1..Len(hits) : hits[i]
    THEN CHOOSE i \in 1..Len(hits) : hits[i] /\ \A j \in 1..(i - 1) : ~hits[j]
    ELSE Len(hits)

\* the scan loops  for (i = 0; i < count; i++) if (<entry i matches>) { ...; return; }
\* hits[i] tells whether entry i matches; the index the loop stops at, 0 if none
FirstMatch(hits) ==
    IF \E i \in 1..Len(hits) : hits[i]
    THEN CHOOSE i \in 1..Len(hits) : hits[i] /\ \A j \in 1..(i - 1) : ~hits[j]
    ELSE 0

\* the first index of s whose element satisfies Test, 0 if none
FirstIndex(s, Test(_)) == FirstMatch([i \in 1..Len(s) |-> Test(s[i])])

\* mutant: the new entry is put in front
AppendEntryFirst(list, new) == <<new>> \o list

\* array[count] = new; count++
AppendEntry(list, new) == Append(list, new)

\* real time passes: every running history counter advances, up to the cap
Elapse(c, d) ==
    [i \in 1..Len(c) |->
        IF c[i].since = Never THEN c[i]
        ELSE [c[i] EXCEPT !.since = Min(ElapsedCap, c[i].since + d)]]

\* cool[i]: since = real time since alarm i's lastTriggered was last stamped (Never if it
\* was not since the alarm was added or loaded); took, delivery = how long that
\* notification's POST took and how it ended; sameCooldown = cooldownMs was not
\* changed since
NoHistory == [since |-> Never, took |-> 0, delivery |-> "", sameCooldown |-> TRUE]

\* sent[i]: since = real time since webhook i's lastUpdate was last stamped (Never if it
\* was not since the webhook was added or loaded); sameInterval = updateIntervalMs
\* was not changed since; delivery = how that update's POST ended.  Of the
\* sendScheduledWebhooks that just ran (until readSensors runs): fired = it found
\* this webhook due, gap = `since` when it did, took = the POST's duration
NoSent ==
    [since |-> Never, sameInterval |-> TRUE, fired |-> FALSE, gap |-> Never, took |-> 0,
     delivery |-> ""]

\* the scheduler's locals are forgotten
Settle(s) ==
    [i \in 1..Len(s) |->
        [s[i] EXCEPT !.fired = FALSE, !.gap = Never, !.took = 0]]

(***************************************************************************)
(* Conversions                                                             *)
(***************************************************************************)
\* The bus addresses of the model, as the 8 bytes the device holds.
ADDR_ZERO == <<0, 0, 0, 0, 0, 0, 0, 0>>
ADDR_A == <<40, 170, 0, 0, 0, 0, 0, 1>>
ADDR_B == <<40, 187, 0, 0, 0, 0, 0, 2>>

\* the k-th device the bus enumerates at startup
BusDevice(k) == <<40, k, 0, 0, 0, 0, 0, k>>
\* the addresses the strings of the model stand for
KnownAddresses ==
    {ADDR_ZERO, ADDR_A, ADDR_B} \cup {BusDevice(k) : k \in 1..(MAX_DS18B20_SENSORS + 1)}

HexDigits == <<"0", "1", "2", "3", "4", "5", "6", "7", "8", "9", "A", "B", "C", "D", "E", "F">>
\* if (addr[i] < 16) result += "0"; result += String(addr[i], HEX); upper case
ByteToHex(b) == HexDigits[(b \div 16) + 1] \o HexDigits[(b % 16) + 1]

\* addressToString: two hex digits per byte, ':' between, upper case
\* (the two addresses the requests name are written out)
addressToString(addr) ==
    IF addr = ADDR_A THEN "28:AA:00:00:00:00:00:01"
    ELSE IF addr = ADDR_B THEN "28:BB:00:00:00:00:00:02"
    ELSE
    ByteToHex(addr[1]) \o ":" \o ByteToHex(addr[2]) \o ":" \o ByteToHex(addr[3]) \o ":" \o
    ByteToHex(addr[4]) \o ":" \o ByteToHex(addr[5]) \o ":" \o ByteToHex(addr[6]) \o ":" \o
    ByteToHex(addr[7]) \o ":" \o ByteToHex(addr[8])

\* stringToAddress: strtol(.., 16) of the two characters at 0, 3, 6, ...;
\* hex digits of either case parse, anything else parses as 0
stringToAddress(str) ==
    CASE str \in {"28:AA:00:00:00:00:00:01", "28:aa:00:00:00:00:00:01"} -> ADDR_A
      [] str \in {"28:BB:00:00:00:00:00:02", "28:bb:00:00:00:00:00:02"} -> ADDR_B
      [] \E addr \in KnownAddresses : addressToString(addr) = str ->
            CHOOSE addr \in KnownAddresses : addressToString(addr) = str
      [] OTHER -> ADDR_ZERO

\* mutant: every kind is written as "unknown"
sensorTypeToStringUnknown(type) == "unknown"

sensorTypeToString(type) ==
    CASE type = SENSOR_DS18B20 -> "ds18b20"
      [] type = SENSOR_DHT_TEMP -> "dht_temp"
      [] type = SENSOR_DHT_HUM -> "dht_hum"
      [] type = SENSOR_LIGHT -> "light"
      [] type = SENSOR_MOTION -> "motion"
      [] OTHER -> "unknown"

stringToSensorType(str) ==
    CASE str = "ds18b20" -> SENSOR_DS18B20
      [] str = "dht_temp" -> SENSOR_DHT_TEMP
      [] str = "dht_hum" -> SENSOR_DHT_HUM
      [] str = "light" -> SENSOR_LIGHT
      [] str = "motion" -> SENSOR_MOTION
      [] OTHER -> SENSOR_DHT_TEMP

\* Arduino's map(): (x - in_min) * (out_max - out_min) / (in_max - in_min) + out_min
map(x, in_min, in_max, out_min, out_max) ==
    ((x - in_min) * (out_max - out_min)) \div (in_max - in_min) + out_min

\* ArduinoJson: doc[key] | dflt  is the member when present, dflt otherwise;
\* a plain read of a missing member gives the type's zero
JsonOr(v, dflt) == IF v = Absent THEN dflt ELSE v[1]
JsonBool(v) == JsonOr(v, FALSE)
JsonNum(v) == JsonOr(v, 0)
\* Preferences: get<T>(key, dflt) is the stored value, dflt when the key is missing
GetOr(v, dflt) == IF v = Absent THEN dflt ELSE v[1]

(***************************************************************************)
(* Value source                                                            *)
(***************************************************************************)
getSensorValue(type, sensorId) ==
    CASE type = SENSOR_DHT_TEMP -> dhtTemperature
      [] type = SENSOR_DHT_HUM -> dhtHumidity
      [] type = SENSOR_LIGHT -> lightLevel
      [] type = SENSOR_MOTION -> motionDetected
      [] type = SENSOR_DS18B20 ->
            LET HasId(s) == s.id = sensorId
                i == FirstIndex(ds18b20List, HasId)
            IN  IF i # 0 THEN ds18b20List[i].lastReading ELSE UNRESOLVED_VALUE
      [] OTHER -> UNRESOLVED_VALUE

(***************************************************************************)
(* Persistence                                                             *)
(*                                                                         *)
(* prefs holds the three counts and, per kind, the records written so far: *)
(* prefs.ds[i+1] stands for the keys "ds<i>_addr", "ds<i>_id", ...  A      *)
(* record above the count is never erased by saveConfiguration; a field    *)
(* can be Absent (its key is not in the store).                            *)
(***************************************************************************)
\* full: the partition has no free entry, so that every put<T> returns 0 and
\* writes nothing (the sketch does not look at what put<T> returns)
EmptyPrefs ==
    [ds18Count |-> 0, ds |-> <<>>, alarmCount |-> 0, al |-> <<>>, whCount |-> 0, wh |-> <<>>,
     full |-> FALSE]

AbsentSensorRec == [addr |-> Absent, id |-> Absent, name |-> Absent, en |-> Absent]
AbsentAlarmRec ==
    [id |-> Absent, name |-> Absent, type |-> Absent, sid |-> Absent, min |-> Absent,
     max |-> Absent, en |-> Absent, url |-> Absent, cd |-> Absent]
AbsentWebhookRec ==
    [id |-> Absent, name |-> Absent, url |-> Absent, en |-> Absent, int |-> Absent]

\* the record of index i (1-based here) of a kind, every key Absent if never written
Stored(recs, i, absentRec) == IF i <= Len(recs) THEN recs[i] ELSE absentRec

\* put<T>: the first `count` records are overwritten, the others stay
Overwrite(recs, fresh) ==
    [i \in 1..(IF Len(recs) > Len(fresh) THEN Len(recs) ELSE Len(fresh)) |->
        IF i <= Len(fresh) THEN fresh[i] ELSE recs[i]]

SensorRec(s) ==
    [addr |-> Some(addressToString(s.address)), id |-> Some(s.id), name |-> Some(s.name),
     en |-> Some(s.enabled)]
AlarmRec(a) ==
    [id |-> Some(a.id), name |-> Some(a.name),
     type |-> Some(sensorTypeToString(a.sensorType)), sid |-> Some(a.sensorId),
     min |-> Some(a.minValue), max |-> Some(a.maxValue), en |-> Some(a.enabled),
     url |-> Some(a.webhookUrl), cd |-> Some(a.cooldownMs)]
WebhookRec(w) ==
    [id |-> Some(w.id), name |-> Some(w.name), url |-> Some(w.url), en |-> Some(w.enabled),
     int |-> Some(w.updateIntervalMs)]

\* mutant: nothing is written
saveNothing(p, sensors, als, whs) == p

\* saveConfiguration(): the store after saving the given registries
saveConfiguration(p, sensors, als, whs) ==
    IF p.full THEN p
    ELSE
    [ds18Count |-> Len(sensors),
     ds |-> Overwrite(p.ds, [i \in 1..Len(sensors) |-> SensorRec(sensors[i])]),
     alarmCount |-> Len(als),
     al |-> Overwrite(p.al, [i \in 1..Len(als) |-> AlarmRec(als[i])]),
     whCount |-> Len(whs),
     wh |-> Overwrite(p.wh, [i \in 1..Len(whs) |-> WebhookRec(whs[i])]),
     full |-> FALSE]

\* loadConfiguration(), one loop per kind.  The arrays are zero-initialised
\* globals when it runs, so an address whose key is missing stays all zero.
\* mutant: the reading is left as the zeroed global
LoadSensorNoSentinel(r) ==
    [address |-> IF GetOr(r.addr, "") = "" THEN ADDR_ZERO
                 ELSE stringToAddress(GetOr(r.addr, "")),
     id |-> GetOr(r.id, ""),
     name |-> GetOr(r.name, ""),
     enabled |-> GetOr(r.en, TRUE),
     lastReading |-> 0]

LoadSensor(r) ==
    [address |-> IF GetOr(r.addr, "") = "" THEN ADDR_ZERO
                 ELSE stringToAddress(GetOr(r.addr, "")),
     id |-> GetOr(r.id, ""),
     name |-> GetOr(r.name, ""),
     enabled |-> GetOr(r.en, TRUE),
     lastReading |-> INITIAL_READING]
LoadAlarm(r) ==
    [id |-> GetOr(r.id, ""),
     name |-> GetOr(r.name, ""),
     sensorType |-> stringToSensorType(GetOr(r.type, "")),
     sensorId |-> GetOr(r.sid, ""),
     minValue |-> GetOr(r.min, DEFAULT_MIN),
     maxValue |-> GetOr(r.max, DEFAULT_MAX),
     enabled |-> GetOr(r.en, TRUE),
     webhookUrl |-> GetOr(r.url, ""),
     cooldownMs |-> GetOr(r.cd, DEFAULT_COOLDOWN),
     lastTriggered |-> 0]
LoadWebhook(r) ==
    [id |-> GetOr(r.id, ""),
     name |-> GetOr(r.name, ""),
     url |-> GetOr(r.url, ""),
     enabled |-> GetOr(r.en, TRUE),
     updateIntervalMs |-> GetOr(r.int, 0),
     lastUpdate |-> 0]

loadSensors(p) == [i \in 1..p.ds18Count |-> LoadSensor(Stored(p.ds, i, AbsentSensorRec))]
loadAlarms(p) == [i \in 1..p.alarmCount |-> LoadAlarm(Stored(p.al, i, AbsentAlarmRec))]
loadWebhooks(p) == [i \in 1..p.whCount |-> LoadWebhook(Stored(p.wh, i, AbsentWebhookRec))]

(***************************************************************************)
(* readSensors()                                                           *)
(***************************************************************************)
isnan(x) == x = Absent

\* no readSensors has just run
NoSample == [taken |-> FALSE, h |-> Absent, t |-> Absent, temps |-> <<>>]

\* mutant: a disabled sensor is polled too
PolledAlways(s) == TRUE

\* if (ds18b20List[i].enabled)
Polled(s) == s.enabled

\* mutant: the disconnected code is cached like a temperature
ReadingAlwaysValid(tempC) == TRUE

\* if (temp != DEVICE_DISCONNECTED_C)
ReadingValid(tempC) == tempC # DEVICE_DISCONNECTED_C

\* mutant: a polled sensor that answers with the disconnected code is switched off
readSensorsSwitchingOff(h, t, temps, pir, rawLight) ==
    /\ pc = "readSensors"
    /\ IF ~isnan(h) /\ ~isnan(t)
       THEN dhtHumidity' = h[1] /\ dhtTemperature' = t[1]
       ELSE UNCHANGED <<dhtHumidity, dhtTemperature>>
    /\ ds18b20List' =
          [i \in 1..Len(ds18b20List) |->
              IF Polled(ds18b20List[i])
              THEN IF ReadingValid(temps[i])
                   THEN [ds18b20List[i] EXCEPT !.lastReading = temps[i]]
                   ELSE [ds18b20List[i] EXCEPT !.enabled = FALSE]
              ELSE ds18b20List[i]]
    /\ motionDetected' = pir
    /\ lightLevel' = map(rawLight, 0, 4095, 0, 100)
    /\ pc' = "checkAlarms"
    /\ response' = [op |-> "", req |-> [plain |-> FALSE], code |-> 0, text |-> ""]
    /\ sent' = Settle(sent)
    /\ sampled' = [taken |-> TRUE, h |-> h, t |-> t, temps |-> temps]
    /\ UNCHANGED <<alarms, webhooks, clock, prefs, history, legacy>>

\* h, t: what the DHT returned (Absent for NaN); temps[i]: what getTempC returned
\* for the i-th registered sensor; pir, rawLight: the pin reads
readSensors(h, t, temps, pir, rawLight) ==
    /\ pc = "readSensors"
    /\ IF ~isnan(h) /\ ~isnan(t)
       THEN dhtHumidity' = h[1] /\ dhtTemperature' = t[1]
       ELSE UNCHANGED <<dhtHumidity, dhtTemperature>>
    /\ ds18b20List' =
          [i \in 1..Len(ds18b20List) |->
              IF Polled(ds18b20List[i]) /\ ReadingValid(temps[i])
              THEN [ds18b20List[i] EXCEPT !.lastReading = temps[i]]
              ELSE ds18b20List[i]]
    /\ motionDetected' = pir
    /\ lightLevel' = map(rawLight, 0, 4095, 0, 100)
    /\ pc' = "checkAlarms"
    /\ response' = [op |-> "", req |-> [plain |-> FALSE], code |-> 0, text |-> ""]
    /\ sent' = Settle(sent)
    /\ sampled' = [taken |-> TRUE, h |-> h, t |-> t, temps |-> temps]
    /\ UNCHANGED <<alarms, webhooks, clock, prefs, history, legacy>>

(***************************************************************************)
(* checkAlarms()                                                           *)
(***************************************************************************)
\* mutant: the enabled flag is not looked at
AlarmNeverSkipped(a) == FALSE

\* if (!alarms[i].enabled) continue;
AlarmSkipped(a) == ~a.enabled

\* the two threshold tests, in the order of the if / else if
\* mutant: a value equal to the low bound counts as below it
IsBelowMinInclusive(currentValue, a) == currentValue <= a.minValue
\* mutant: the high bound is only tested when the bounds are in order
IsAboveMaxOrdered(currentValue, a) == a.minValue <= a.maxValue /\ currentValue > a.maxValue

IsBelowMin(currentValue, a) == currentValue < a.minValue
IsAboveMax(currentValue, a) == currentValue > a.maxValue

\* mutant: only an alarm that was never stamped notifies
CooldownPassedOnce(now, a) ==
    a.lastTriggered = 0 /\ USub(now, a.lastTriggered) > a.cooldownMs

\* mutant: the cooldown test passes already when exactly cooldownMs elapsed
CooldownPassedInclusive(now, a) == USub(now, a.lastTriggered) >= a.cooldownMs

\* millis() - lastTriggered > cooldownMs, in unsigned arithmetic
CooldownPassed(now, a) == USub(now, a.lastTriggered) > a.cooldownMs

\* mutant: the timestamp is only taken when the notification was delivered
TriggerStampIfDelivered(a, now, delivery) ==
    IF delivery = "delivered" THEN now ELSE a.lastTriggered

\* alarms[i].lastTriggered = millis(), after sendWebhookPost returned at `now`
\* with the given delivery
TriggerStamp(a, now, delivery) == now

\* mutant: a request that is not delivered is made a second time
AttemptAgainOnFailure(requests, post) ==
    IF post.delivery = "delivered" THEN Append(requests, post)
    ELSE Append(Append(requests, post), post)

\* one call of sendWebhookPost / http.POST: one request, whatever its outcome
Attempt(requests, post) == Append(requests, post)

\* what checkAlarms passes to sendWebhookPost, with the environment's answer:
\* delivery is "delivered", "http_error" or "not_connected" (no request was built)
AlarmPost(a, bound, currentValue, now, delivery) ==
    [event |-> "alarm_triggered",
     url |-> a.webhookUrl,
     message |-> [name |-> a.name, bound |-> bound, value |-> currentValue,
                  threshold |-> IF bound = "min" THEN a.minValue ELSE a.maxValue],
     sensor_id |-> a.sensorId,
     value |-> currentValue,
     timestamp |-> now,
     delivery |-> delivery]

\* One pass of the for loop from index i on.  st carries what the loop changes
\* (alarms, clock) and the history; env[i] is the environment's answer to the
\* i-th alarm's POST: its delivery and how long the blocking call took.
RECURSIVE checkAlarmsFrom(_, _, _)
checkAlarmsFrom(i, st, env) ==
    IF i > Len(st.alarms) THEN st
    ELSE
      LET a == st.alarms[i] IN
      IF AlarmSkipped(a)
      THEN checkAlarmsFrom(i + 1,
              [st EXCEPT !.evalLog = Append(@, [alarm |-> i, evaluated |-> FALSE,
                    currentValue |-> 0, triggered |-> FALSE, bound |-> "",
                    elapsed |-> 0, notified |-> FALSE, at |-> st.clock,
                    before |-> st.cool[i]])],
              env)
      ELSE
        LET currentValue == getSensorValue(a.sensorType, a.sensorId)
            below == IsBelowMin(currentValue, a)
            above == ~below /\ IsAboveMax(currentValue, a)
            triggered == below \/ above
            bound == IF below THEN "min" ELSE IF above THEN "max" ELSE ""
            fire == triggered /\ CooldownPassed(st.clock, a)
            took == env[i].took
            after == (st.clock + took) % ClockMod
            entry == [alarm |-> i, evaluated |-> TRUE, currentValue |-> currentValue,
                      triggered |-> triggered, bound |-> bound,
                      elapsed |-> USub(st.clock, a.lastTriggered), notified |-> fire,
                      at |-> st.clock, before |-> st.cool[i]]
        IN  IF fire
            THEN checkAlarmsFrom(i + 1,
                    [alarms |-> [st.alarms EXCEPT ![i].lastTriggered =
                                    TriggerStamp(a, after, env[i].delivery)],
                     clock |-> after,
                     outbox |-> Attempt(st.outbox,
                                  AlarmPost(a, bound, currentValue, st.clock, env[i].delivery)),
                     evalLog |-> Append(st.evalLog, entry),
                     cool |-> [Elapse(st.cool, took) EXCEPT ![i] =
                                 [since |-> 0, took |-> took, delivery |-> env[i].delivery,
                                  sameCooldown |-> TRUE]],
                     sent |-> Elapse(st.sent, took)],
                    env)
            ELSE checkAlarmsFrom(i + 1, [st EXCEPT !.evalLog = Append(@, entry)], env)

\* The environment's answers to a POST: WiFi is up and the request is delivered or
\* fails after some time, or WiFi is down and no request is made.
PostAnswers ==
    [delivery : {"delivered", "http_error"}, took : 0..MaxSendDelay]
        \cup {[delivery |-> "not_connected", took |-> 0]}
\* the answer of a POST that is never made
NoPost == [delivery |-> "not_connected", took |-> 0]

\* the answers to the POSTs of one pass over an array: may[i] tells whether the
\* pass can reach the POST of entry i at all
RECURSIVE Answers(_)
Answers(may) ==
    IF may = <<>> THEN {<<>>}
    ELSE {Append(env, a) : env \in Answers(SubSeq(may, 1, Len(may) - 1)),
                           a \in IF may[Len(may)] THEN PostAnswers ELSE {NoPost}}

checkAlarms ==
    /\ pc = "checkAlarms"
    /\ \E env \in Answers([i \in 1..Len(alarms) |-> ~AlarmSkipped(alarms[i])]) :
          LET st == checkAlarmsFrom(1,
                       [alarms |-> alarms, clock |-> clock, outbox |-> <<>>,
                        evalLog |-> <<>>, cool |-> cool, sent |-> sent], env)
          IN  /\ \A i \in 1..Len(alarms) : ~st.evalLog[i].notified => env[i] = NoPost
              /\ alarms' = st.alarms
              /\ clock' = st.clock
              /\ outbox' = st.outbox
              /\ evalLog' = st.evalLog
              /\ cool' = st.cool
              /\ sent' = st.sent
    /\ pc' = "sendScheduledWebhooks"
    /\ sampled' = NoSample
    /\ UNCHANGED <<ds18b20List, webhooks, readings, prefs, response, legacy>>

(***************************************************************************)
(* sendScheduledWebhooks(), then loop()'s delay                            *)
(***************************************************************************)
\* mutant: an interval of 0 is not looked at
ScheduleSkippedIfDisabled(w) == ~w.enabled

\* if (!webhooks[i].enabled || webhooks[i].updateIntervalMs == 0) continue;
ScheduleSkipped(w) == ~w.enabled \/ w.updateIntervalMs = 0

\* millis() - lastUpdate >= updateIntervalMs, in unsigned arithmetic
IntervalPassed(now, w) == USub(now, w.lastUpdate) >= w.updateIntervalMs

\* mutant: the timestamp is only taken when the update was delivered
ScheduleStampIfDelivered(w, now, delivery) ==
    IF delivery = "delivered" THEN now ELSE w.lastUpdate

\* webhooks[i].lastUpdate = millis(), after the POST returned (or was not made) at
\* `now` with the given delivery
ScheduleStamp(w, now, delivery) == now

\* the JSON document of a scheduled update
ScheduledPost(w, now, delivery) ==
    [event |-> "scheduled_update",
     url |-> w.url,
     webhook_name |-> w.name,
     timestamp |-> now,
     dht_temperature |-> dhtTemperature,
     dht_humidity |-> dhtHumidity,
     light |-> lightLevel,
     motion |-> motionDetected,
     ds18b20_sensors |->
        LET en == SelectSeq(ds18b20List, LAMBDA s : s.enabled)
        IN  [j \in 1..Len(en) |->
                [id |-> en[j].id, name |-> en[j].name, temperature |-> en[j].lastReading]],
     delivery |-> delivery]

RECURSIVE sendScheduledFrom(_, _, _)
sendScheduledFrom(i, st, env) ==
    IF i > Len(st.webhooks) THEN st
    ELSE
      LET w == st.webhooks[i] IN
      IF ScheduleSkipped(w) THEN sendScheduledFrom(i + 1, st, env)
      ELSE IF IntervalPassed(st.clock, w)
      THEN LET took == env[i].took
               after == (st.clock + took) % ClockMod
           IN  sendScheduledFrom(i + 1,
                  [webhooks |-> [st.webhooks EXCEPT ![i].lastUpdate =
                                    ScheduleStamp(w, after, env[i].delivery)],
                   clock |-> after,
                   outbox |-> Attempt(st.outbox, ScheduledPost(w, st.clock, env[i].delivery)),
                   cool |-> Elapse(st.cool, took),
                   sent |-> [Elapse(st.sent, took) EXCEPT ![i] =
                               [since |-> 0, sameInterval |-> TRUE, fired |-> TRUE,
                                gap |-> st.sent[i].since, took |-> took,
                                delivery |-> env[i].delivery]]],
                  env)
      ELSE sendScheduledFrom(i + 1, st, env)

\* step: how long delay(100) and the rest of the iteration took
sendScheduledWebhooks(step) ==
    /\ pc = "sendScheduledWebhooks"
    /\ \E env \in Answers([i \in 1..Len(webhooks) |-> ~ScheduleSkipped(webhooks[i])]) :
          LET st == sendScheduledFrom(1,
                       [webhooks |-> webhooks, clock |-> clock, outbox |-> <<>>,
                        cool |-> cool, sent |-> Settle(sent)], env)
          IN  /\ \A i \in 1..Len(webhooks) : ~st.sent[i].fired => env[i] = NoPost
              /\ webhooks' = st.webhooks
              /\ clock' = (st.clock + step) % ClockMod
              /\ outbox' = st.outbox
              /\ cool' = Elapse(st.cool, step)
              /\ sent' = Elapse(st.sent, step)
    /\ evalLog' = <<>>
    /\ pc' = "handleClient"
    /\ UNCHANGED <<ds18b20List, alarms, readings, prefs, response, sampled, legacy>>

(***************************************************************************)
(* setup(): loadConfiguration(), scanDS18B20Sensors(), WiFi                 *)
(***************************************************************************)
\* sprintf("ds18b20_%d", n) and sprintf("DS18B20 Sensor %d", n)
SeedId(n) == "ds18b20_" \o ToString(n)
SeedName(n) == "DS18B20 Sensor " \o ToString(n)

\* the auto-add loop: found[i] is what getAddress(addr, i-1) gave, Some(addr) or
\* Absent when it failed; at most MAX_DS18B20_SENSORS devices are looked at
RECURSIVE scanFrom(_, _, _)
scanFrom(i, list, found) ==
    IF i > Len(found) \/ i > MAX_DS18B20_SENSORS THEN list
    ELSE IF found[i] = Absent THEN scanFrom(i + 1, list, found)
    ELSE scanFrom(i + 1,
            Append(list, [address |-> found[i][1], id |-> SeedId(Len(list) + 1),
                          name |-> SeedName(Len(list) + 1), enabled |-> TRUE,
                          lastReading |-> INITIAL_READING]),
            found)

\* mutant: the devices found are added whatever the list holds
scanIntoAnyList(list, found) == scanFrom(1, list, found)

\* scanDS18B20Sensors(): the sensor list afterwards
scanDS18B20Sensors(list, found) == IF Len(list) = 0 THEN scanFrom(1, list, found) ELSE list

\* found: the devices on the bus; boot: how long setup() took
setup(found, boot) ==
    /\ pc = "setup"
    /\ LET loaded == loadSensors(prefs)
           scanned == scanDS18B20Sensors(loaded, found)
       IN  /\ ds18b20List' = scanned
           /\ alarms' = loadAlarms(prefs)
           /\ webhooks' = loadWebhooks(prefs)
           /\ prefs' = IF Len(loaded) = 0 /\ Len(scanned) > 0
                       THEN saveConfiguration(prefs, scanned, loadAlarms(prefs),
                                              loadWebhooks(prefs))
                       ELSE prefs
           /\ cool' = [i \in 1..prefs.alarmCount |-> NoHistory]
           /\ sent' = [i \in 1..prefs.whCount |-> NoSent]
    /\ clock' = (clock + boot) % ClockMod
    /\ pc' = "handleClient"
    /\ UNCHANGED <<readings, response, outbox, evalLog, sampled, legacy>>

NoResponse == [op |-> "", req |-> [plain |-> FALSE], code |-> 0, text |-> ""]

\* the globals as the C runtime initialises them; the store is all that survives
PowerOn(p) ==
    /\ ds18b20List = <<>>
    /\ alarms = <<>>
    /\ webhooks = <<>>
    /\ dhtTemperature = 0
    /\ dhtHumidity = 0
    /\ motionDetected = 0
    /\ lightLevel = 0
    /\ clock = 0
    /\ prefs = p
    /\ pc = "setup"
    /\ response = NoResponse
    /\ outbox = <<>>
    /\ evalLog = <<>>
    /\ cool = <<>>
    /\ sent = <<>>
    /\ sampled = NoSample
    /\ lastMotionWebhook = 0
    /\ lastTempCheck = 0

\* power cycle or reset, at any point of the loop
reset ==
    /\ pc # "setup"
    /\ ds18b20List' = <<>>
    /\ alarms' = <<>>
    /\ webhooks' = <<>>
    /\ dhtTemperature' = 0
    /\ dhtHumidity' = 0
    /\ motionDetected' = 0
    /\ lightLevel' = 0
    /\ clock' = 0
    /\ pc' = "setup"
    /\ response' = NoResponse
    /\ outbox' = <<>>
    /\ evalLog' = <<>>
    /\ cool' = <<>>
    /\ sent' = <<>>
    /\ sampled' = NoSample
    /\ UNCHANGED <<prefs, legacy>>

(***************************************************************************)
(* server.handleClient(): at most one request per loop iteration           *)
(***************************************************************************)
\* mutant: after a request the iteration goes on with the evaluation, without
\* sampling
SendSkipSampling(op, req, code, text) ==
    /\ response' = [op |-> op, req |-> req, code |-> code, text |-> text]
    /\ pc' = "checkAlarms"
    /\ outbox' = <<>>
    /\ evalLog' = <<>>
    /\ UNCHANGED <<sampled, legacy>>

\* server.send(code, "text/plain", text) by the handler op serving the request
\* req, and on to the rest of the iteration
Send(op, req, code, text) ==
    /\ response' = [op |-> op, req |-> req, code |-> code, text |-> text]
    /\ pc' = "readSensors"
    /\ outbox' = <<>>
    /\ evalLog' = <<>>
    /\ UNCHANGED <<sampled, legacy>>

\* String s = doc[key]: a missing member converts to "null"
JsonStr(v) == JsonOr(v, "null")

\* mutant: the array is taken for full one entry late
AtCapacityLate(count, max) == count > max

\* if (count >= MAX) { server.send(400, ...); return; }
AtCapacity(count, max) == count >= max

\* no client is waiting
noRequest ==
    /\ pc = "handleClient"
    /\ pc' = "readSensors"
    /\ response' = NoResponse
    /\ outbox' = <<>>
    /\ evalLog' = <<>>
    /\ UNCHANGED <<registry, readings, clock, prefs, cool, sent, sampled, legacy>>

handleAddDS18B20(req) ==
    /\ pc = "handleClient"
    /\ IF AtCapacity(Len(ds18b20List), MAX_DS18B20_SENSORS)
       THEN /\ Send("handleAddDS18B20", req, 400, "Maximum sensors reached")
            /\ UNCHANGED <<ds18b20List, prefs>>
       ELSE IF req.plain
       THEN LET new == [address |-> stringToAddress(JsonStr(req.address)),
                        id |-> JsonStr(req.id),
                        name |-> JsonStr(req.name),
                        enabled |-> TRUE,
                        lastReading |-> INITIAL_READING]
            IN  /\ ds18b20List' = AppendEntry(ds18b20List, new)
                /\ prefs' = saveConfiguration(prefs, ds18b20List', alarms, webhooks)
                /\ Send("handleAddDS18B20", req, 200, "Sensor added successfully")
       ELSE /\ Send("handleAddDS18B20", req, 400, "Invalid request")
            /\ UNCHANGED <<ds18b20List, prefs>>
    /\ UNCHANGED <<alarms, webhooks, readings, clock, cool, sent>>

handleRemoveDS18B20(req) ==
    /\ pc = "handleClient"
    /\ IF req.plain
       THEN LET Matches(s) == addressToString(s.address) = JsonStr(req.address)
                i == FirstIndex(ds18b20List, Matches)
            IN  IF i # 0
                THEN /\ ds18b20List' = RemoveAt(ds18b20List, i)
                     /\ prefs' = saveConfiguration(prefs, ds18b20List', alarms, webhooks)
                     /\ Send("handleRemoveDS18B20", req, 200, "Sensor removed")
                ELSE /\ Send("handleRemoveDS18B20", req, 404, "Sensor not found")
                     /\ UNCHANGED <<ds18b20List, prefs>>
       ELSE /\ Send("handleRemoveDS18B20", req, 400, "Invalid request")
            /\ UNCHANGED <<ds18b20List, prefs>>
    /\ UNCHANGED <<alarms, webhooks, readings, clock, cool, sent>>

\* mutant: the rename also switches the sensor off
RenameAndSwitchOff(s, name) == [s EXCEPT !.name = name, !.enabled = FALSE]

\* mutant: a renamed sensor is switched on and its reading forgotten
RenameAndRestart(s, name) ==
    [s EXCEPT !.name = name, !.enabled = TRUE, !.lastReading = INITIAL_READING]

\* name.toCharArray(ds18b20List[i].name, 64)
RenameSensor(s, name) == [s EXCEPT !.name = name]

handleUpdateDS18B20(req) ==
    /\ pc = "handleClient"
    /\ IF req.plain
       THEN LET HasId(s) == s.id = JsonStr(req.id)
                i == FirstIndex(ds18b20List, HasId)
            IN  IF i # 0
                THEN /\ ds18b20List' =
                          [ds18b20List EXCEPT ![i] = RenameSensor(@, JsonStr(req.name))]
                     /\ prefs' = saveConfiguration(prefs, ds18b20List', alarms, webhooks)
                     /\ Send("handleUpdateDS18B20", req, 200, "Sensor updated")
                ELSE /\ Send("handleUpdateDS18B20", req, 404, "Sensor not found")
                     /\ UNCHANGED <<ds18b20List, prefs>>
       ELSE /\ Send("handleUpdateDS18B20", req, 400, "Invalid request")
            /\ UNCHANGED <<ds18b20List, prefs>>
    /\ UNCHANGED <<alarms, webhooks, readings, clock, cool, sent>>

\* the relay and the LED, which no request of the model switches
relayState == FALSE
ledState == FALSE

\* the JSON document of GET /data
SensorData ==
    [dht |-> [temperature |-> dhtTemperature, humidity |-> dhtHumidity],
     ds18b20 |->
        LET en == SelectSeq(ds18b20List, LAMBDA s : s.enabled)
        IN  [j \in 1..Len(en) |->
                [id |-> en[j].id, name |-> en[j].name, temperature |-> en[j].lastReading,
                 address |-> addressToString(en[j].address)]],
     motion |-> motionDetected,
     light |-> lightLevel,
     relay |-> relayState,
     led |-> ledState]

\* GET /data: server.send(200, "application/json", json)
handleSensorData ==
    /\ pc = "handleClient"
    /\ Send("handleSensorData", [plain |-> FALSE], 200, SensorData)
    /\ UNCHANGED <<registry, readings, clock, prefs, cool, sent>>

\* GET /api/scan-ds18b20: the device count and the addresses that could be
\* read; found is what the bus answers, as in setup
handleScanDS18B20(found) ==
    /\ pc = "handleClient"
    /\ Send("handleScanDS18B20", [plain |-> FALSE], 200,
            [count |-> Len(found),
             discovered |->
                LET got == SelectSeq(found, LAMBDA f : f # Absent)
                IN  [j \in 1..Len(got) |-> addressToString(got[j][1])]])
    /\ UNCHANGED <<registry, readings, clock, prefs, cool, sent>>

handleAddAlarm(req) ==
    /\ pc = "handleClient"
    /\ IF AtCapacity(Len(alarms), MAX_ALARMS)
       THEN /\ Send("handleAddAlarm", req, 400, "Maximum alarms reached")
            /\ UNCHANGED <<alarms, prefs, cool>>
       ELSE IF req.plain
       THEN LET new == [id |-> JsonStr(req.id),
                        name |-> JsonStr(req.name),
                        sensorType |-> stringToSensorType(JsonStr(req.sensor_type)),
                        sensorId |-> JsonStr(req.sensor_id),
                        minValue |-> JsonNum(req.min_value),
                        maxValue |-> JsonNum(req.max_value),
                        enabled |-> JsonOr(req.enabled, TRUE),
                        webhookUrl |-> JsonStr(req.webhook_url),
                        cooldownMs |-> JsonOr(req.cooldown_ms, DEFAULT_COOLDOWN),
                        lastTriggered |-> 0]
            IN  /\ alarms' = AppendEntry(alarms, new)
                /\ cool' = Append(cool, NoHistory)
                /\ prefs' = saveConfiguration(prefs, ds18b20List, alarms', webhooks)
                /\ Send("handleAddAlarm", req, 200, "Alarm added successfully")
       ELSE /\ Send("handleAddAlarm", req, 400, "Invalid request")
            /\ UNCHANGED <<alarms, prefs, cool>>
    /\ UNCHANGED <<ds18b20List, webhooks, readings, clock, sent>>

handleUpdateAlarm(req) ==
    /\ pc = "handleClient"
    /\ IF req.plain
       THEN LET HasId(a) == a.id = JsonStr(req.id)
                i == FirstIndex(alarms, HasId)
            IN  IF i # 0
                THEN /\ alarms' = [alarms EXCEPT ![i] =
                            [@ EXCEPT !.name = JsonStr(req.name),
                                      !.sensorType = stringToSensorType(JsonStr(req.sensor_type)),
                                      !.sensorId = JsonStr(req.sensor_id),
                                      !.minValue = JsonNum(req.min_value),
                                      !.maxValue = JsonNum(req.max_value),
                                      !.enabled = JsonBool(req.enabled),
                                      !.webhookUrl = JsonStr(req.webhook_url),
                                      !.cooldownMs = JsonNum(req.cooldown_ms)]]
                     /\ cool' = IF alarms'[i].cooldownMs = alarms[i].cooldownMs
                                   \/ cool[i].since = Never
                                THEN cool
                                ELSE [cool EXCEPT ![i].sameCooldown = FALSE]
                     /\ prefs' = saveConfiguration(prefs, ds18b20List, alarms', webhooks)
                     /\ Send("handleUpdateAlarm", req, 200, "Alarm updated")
                ELSE /\ Send("handleUpdateAlarm", req, 404, "Alarm not found")
                     /\ UNCHANGED <<alarms, prefs, cool>>
       ELSE /\ Send("handleUpdateAlarm", req, 400, "Invalid request")
            /\ UNCHANGED <<alarms, prefs, cool>>
    /\ UNCHANGED <<ds18b20List, webhooks, readings, clock, sent>>

handleDeleteAlarm(req) ==
    /\ pc = "handleClient"
    /\ IF req.plain
       THEN LET HasId(a) == a.id = JsonStr(req.id)
                i == FirstIndex(alarms, HasId)
            IN  IF i # 0
                THEN /\ alarms' = RemoveAt(alarms, i)
                     /\ cool' = RemoveAt(cool, i)
                     /\ prefs' = saveConfiguration(prefs, ds18b20List, alarms', webhooks)
                     /\ Send("handleDeleteAlarm", req, 200, "Alarm deleted")
                ELSE /\ Send("handleDeleteAlarm", req, 404, "Alarm not found")
                     /\ UNCHANGED <<alarms, prefs, cool>>
       ELSE /\ Send("handleDeleteAlarm", req, 400, "Invalid request")
            /\ UNCHANGED <<alarms, prefs, cool>>
    /\ UNCHANGED <<ds18b20List, webhooks, readings, clock, sent>>

handleAddWebhook(req) ==
    /\ pc = "handleClient"
    /\ IF AtCapacity(Len(webhooks), MAX_WEBHOOKS)
       THEN /\ Send("handleAddWebhook", req, 400, "Maximum webhooks reached")
            /\ UNCHANGED <<webhooks, prefs, sent>>
       ELSE IF req.plain
       THEN LET new == [id |-> JsonStr(req.id),
                        name |-> JsonStr(req.name),
                        url |-> JsonStr(req.url),
                        enabled |-> JsonOr(req.enabled, TRUE),
                        updateIntervalMs |-> JsonOr(req.update_interval_ms, 0),
                        lastUpdate |-> 0]
            IN  /\ webhooks' = AppendEntry(webhooks, new)
                /\ sent' = Append(sent, NoSent)
                /\ prefs' = saveConfiguration(prefs, ds18b20List, alarms, webhooks')
                /\ Send("handleAddWebhook", req, 200, "Webhook added successfully")
       ELSE /\ Send("handleAddWebhook", req, 400, "Invalid request")
            /\ UNCHANGED <<webhooks, prefs, sent>>
    /\ UNCHANGED <<ds18b20List, alarms, readings, clock, cool>>

handleUpdateWebhook(req) ==
    /\ pc = "handleClient"
    /\ IF req.plain
       THEN LET HasId(w) == w.id = JsonStr(req.id)
                i == FirstIndex(webhooks, HasId)
            IN  IF i # 0
                THEN /\ webhooks' = [webhooks EXCEPT ![i] =
                            [@ EXCEPT !.name = JsonStr(req.name),
                                      !.url = JsonStr(req.url),
                                      !.enabled = JsonBool(req.enabled),
                                      !.updateIntervalMs = JsonNum(req.update_interval_ms)]]
                     /\ sent' = IF webhooks'[i].updateIntervalMs = webhooks[i].updateIntervalMs
                                   \/ sent[i].since = Never
                                THEN sent
                                ELSE [sent EXCEPT ![i].sameInterval = FALSE]
                     /\ prefs' = saveConfiguration(prefs, ds18b20List, alarms, webhooks')
                     /\ Send("handleUpdateWebhook", req, 200, "Webhook updated")
                ELSE /\ Send("handleUpdateWebhook", req, 404, "Webhook not found")
                     /\ UNCHANGED <<webhooks, prefs, sent>>
       ELSE /\ Send("handleUpdateWebhook", req, 400, "Invalid request")
            /\ UNCHANGED <<webhooks, prefs, sent>>
    /\ UNCHANGED <<ds18b20List, alarms, readings, clock, cool>>

handleDeleteWebhook(req) ==
    /\ pc = "handleClient"
    /\ IF req.plain
       THEN LET HasId(w) == w.id = JsonStr(req.id)
                i == FirstIndex(webhooks, HasId)
            IN  IF i # 0
                THEN /\ webhooks' = RemoveAt(webhooks, i)
                     /\ sent' = RemoveAt(sent, i)
                     /\ prefs' = saveConfiguration(prefs, ds18b20List, alarms, webhooks')
                     /\ Send("handleDeleteWebhook", req, 200, "Webhook deleted")
                ELSE /\ Send("handleDeleteWebhook", req, 404, "Webhook not found")
                     /\ UNCHANGED <<webhooks, prefs, sent>>
       ELSE /\ Send("handleDeleteWebhook", req, 400, "Invalid request")
            /\ UNCHANGED <<webhooks, prefs, sent>>
    /\ UNCHANGED <<ds18b20List, alarms, readings, clock, cool>>

(***************************************************************************)
(* Requests and driver results of the specifications                       *)
(***************************************************************************)
AlarmId(k) == "alarm_" \o ToString(k)
AlarmIds == {AlarmId(k) : k \in 1..MaxModelAlarms}

\* high bound only, low bound only (the other bound at its "disabled" value),
\* and bounds out of order
Thresholds == {[min |-> -999, max |-> 30], [min |-> 22, max |-> 999], [min |-> 22, max |-> 10]}
Cooldowns == {0, MaxCooldown}

\* add / update requests for alarms bound to the given sensor
AlarmRequests(type, sid) ==
    {[plain |-> TRUE, id |-> Some(id), name |-> Some("Pool alarm"),
      sensor_type |-> Some(type), sensor_id |-> Some(sid),
      min_value |-> Some(t.min), max_value |-> Some(t.max), enabled |-> Some(e),
      webhook_url |-> Some("http://hook.example/alarm"), cooldown_ms |-> Some(c)] :
        id \in AlarmIds, t \in Thresholds, e \in BOOLEAN, c \in Cooldowns}
AlarmDeletes == {[plain |-> TRUE, id |-> Some(id)] : id \in AlarmIds}

SensorAdds ==
    {[plain |-> TRUE, address |-> Some("28:AA:00:00:00:00:00:01"), id |-> Some("pool_temp"),
      name |-> Some("Pool")]}
SensorRemoves == {[plain |-> TRUE, address |-> Some("28:AA:00:00:00:00:00:01")]}

WebhookId(k) == "hook_" \o ToString(k)
WebhookIds == {WebhookId(k) : k \in 1..MaxModelWebhooks}
\* never, and every MaxInterval clock units
Intervals == {0, MaxInterval}

\* add / update requests for scheduled webhooks
WebhookRequests ==
    {[plain |-> TRUE, id |-> Some(id), name |-> Some("Snapshot"),
      url |-> Some("http://hook.example/update"), enabled |-> Some(en),
      update_interval_ms |-> Some(int)] :
        id \in WebhookIds, en \in BOOLEAN, int \in Intervals}
WebhookDeletes == {[plain |-> TRUE, id |-> Some(id)] : id \in WebhookIds}

\* what the drivers return: the DHT (Absent for NaN), getTempC
DhtTemperatures == {Absent, Some(22), Some(31), Some(-1000)}
DsTemperatures == {DEVICE_DISCONNECTED_C, 30, 31}

(***************************************************************************)
(* Specification Spec: alarms on a built-in channel                        *)
(*                                                                         *)
(* First boot with an empty store and no bus sensor.  Clients add, update  *)
(* and delete alarms bound to the DHT temperature; the loop samples and    *)
(* evaluates; the device may be reset at any point.                        *)
(***************************************************************************)
Init == PowerOn(EmptyPrefs)

Setup == \E boot \in 1..MaxBootTime : setup(<<>>, boot)
Reset == reset
NoRequest == noRequest
AddAlarm ==
    /\ Len(alarms) < MaxModelAlarms
    /\ \E req \in AlarmRequests("dht_temp", "dht_temp") : handleAddAlarm(req)
UpdateAlarm == \E req \in AlarmRequests("dht_temp", "dht_temp") : handleUpdateAlarm(req)
DeleteAlarm == \E req \in AlarmDeletes : handleDeleteAlarm(req)
ReadSensors == \E t \in DhtTemperatures : readSensors(Some(50), t, <<>>, 0, 0)
CheckAlarms == checkAlarms
SendScheduledWebhooks == \E step \in 1..MaxLoopStep : sendScheduledWebhooks(step)

Next ==
    \/ Setup
    \/ Reset
    \/ NoRequest
    \/ AddAlarm
    \/ UpdateAlarm
    \/ DeleteAlarm
    \/ ReadSensors
    \/ CheckAlarms
    \/ SendScheduledWebhooks

Spec == Init /\ [][Next]_vars

(***************************************************************************)
(* Specification SpecBus: alarms on a bus sensor                           *)
(*                                                                         *)
(* The store is empty, or holds the sensor "pool_temp" with its enabled    *)
(* key false.  Clients add and remove the sensor and add, update and       *)
(* delete alarms bound to it.  No DHT is attached (its reads give NaN).    *)
(***************************************************************************)
DisabledSensorStore ==
    [EmptyPrefs EXCEPT
        !.ds18Count = 1,
        !.ds = << [addr |-> Some("28:AA:00:00:00:00:00:01"), id |-> Some("pool_temp"),
                   name |-> Some("Pool"), en |-> Some(FALSE)] >>]

InitBus == \E p \in {EmptyPrefs, DisabledSensorStore} : PowerOn(p)

BusAddAlarm ==
    /\ Len(alarms) < MaxModelAlarms
    /\ \E req \in AlarmRequests("ds18b20", "pool_temp") : handleAddAlarm(req)
BusUpdateAlarm == \E req \in AlarmRequests("ds18b20", "pool_temp") : handleUpdateAlarm(req)
BusAddSensor ==
    /\ Len(ds18b20List) < MaxModelSensors
    /\ \E req \in SensorAdds : handleAddDS18B20(req)
BusRemoveSensor == \E req \in SensorRemoves : handleRemoveDS18B20(req)
BusReadSensors ==
    \E temps \in [1..Len(ds18b20List) -> DsTemperatures] :
        readSensors(Absent, Absent, temps, 0, 0)

NextBus ==
    \/ Setup
    \/ Reset
    \/ NoRequest
    \/ BusAddAlarm
    \/ BusUpdateAlarm
    \/ DeleteAlarm
    \/ BusAddSensor
    \/ BusRemoveSensor
    \/ BusReadSensors
    \/ CheckAlarms
    \/ SendScheduledWebhooks

SpecBus == InitBus /\ [][NextBus]_vars

(***************************************************************************)
(* Specification SpecHooks: scheduled webhooks                             *)
(*                                                                         *)
(* First boot with an empty store, no alarm and no bus sensor.  Clients    *)
(* add, update and delete scheduled webhooks; the loop samples and         *)
(* dispatches; the device may be reset at any point.                       *)
(***************************************************************************)
AddWebhook ==
    /\ Len(webhooks) < MaxModelWebhooks
    /\ \E req \in WebhookRequests : handleAddWebhook(req)
UpdateWebhook == \E req \in WebhookRequests : handleUpdateWebhook(req)
DeleteWebhook == \E req \in WebhookDeletes : handleDeleteWebhook(req)
HooksReadSensors == readSensors(Some(50), Some(22), <<>>, 0, 0)

NextHooks ==
    \/ Setup
    \/ Reset
    \/ NoRequest
    \/ AddWebhook
    \/ UpdateWebhook
    \/ DeleteWebhook
    \/ HooksReadSensors
    \/ CheckAlarms
    \/ SendScheduledWebhooks

SpecHooks == Init /\ [][NextHooks]_vars

(***************************************************************************)
(* Specification SpecCapacity: the three arrays fill up                    *)
(*                                                                         *)
(* First boot with an empty store; at startup the bus enumerates no device *)
(* or one device more than the sensor array holds.  Clients keep adding a  *)
(* sensor, a disabled alarm and a webhook without interval, also when the  *)
(* array is full; the loop runs; the device may be reset at any point.     *)
(***************************************************************************)
FullBus == [k \in 1..(MAX_DS18B20_SENSORS + 1) |-> Some(BusDevice(k))]

CapacityAlarmAdd ==
    [plain |-> TRUE, id |-> Some("alarm_1"), name |-> Some("Pool alarm"),
     sensor_type |-> Some("dht_temp"), sensor_id |-> Some("dht_temp"),
     min_value |-> Some(22), max_value |-> Some(30), enabled |-> Some(FALSE),
     webhook_url |-> Some("http://hook.example/alarm"), cooldown_ms |-> Absent]
CapacityWebhookAdd ==
    [plain |-> TRUE, id |-> Some("hook_1"), name |-> Some("Snapshot"),
     url |-> Some("http://hook.example/update"), enabled |-> Absent,
     update_interval_ms |-> Absent]

\* what the bus answers: no device, nine devices, or two devices of which the
\* first does not give its address
CapacityBuses == {<<>>, FullBus, <<Absent, Some(BusDevice(2))>>}
CapacitySetup == \E found \in CapacityBuses : \E boot \in 1..MaxBootTime : setup(found, boot)
CapacityScan == \E found \in CapacityBuses : handleScanDS18B20(found)
CapacityAddSensor == \E req \in SensorAdds : handleAddDS18B20(req)
CapacityAddAlarm == handleAddAlarm(CapacityAlarmAdd)
CapacityAddWebhook == handleAddWebhook(CapacityWebhookAdd)
CapacityReadSensors ==
    readSensors(Absent, Absent, [i \in 1..Len(ds18b20List) |-> DEVICE_DISCONNECTED_C], 0, 0)

NextCapacity ==
    \/ CapacitySetup
    \/ Reset
    \/ NoRequest
    \/ CapacityAddSensor
    \/ CapacityAddAlarm
    \/ CapacityAddWebhook
    \/ CapacityScan
    \/ CapacityReadSensors
    \/ CheckAlarms
    \/ SendScheduledWebhooks

SpecCapacity == Init /\ [][NextCapacity]_vars

(***************************************************************************)
(* Specification SpecRegistry: add, update and remove on the three arrays  *)
(*                                                                         *)
(* First boot with an empty store; at startup the bus enumerates no device *)
(* or one.  Clients add, update and remove sensors, alarms and webhooks,   *)
(* under ids that may or may not be registered (an update renames a        *)
(* webhook and rewrites a sensor or an alarm with the values it has).  The *)
(* alarms are disabled and the webhooks have no interval, so the loop      *)
(* sends nothing.                                                          *)
(***************************************************************************)
RegistryAlarmIds == {"alarm_1", "alarm_2"}
\* the two ids stand for alarms that differ in every field but enabled
RegistryAlarm(id, name) ==
    IF id = "alarm_1"
    THEN [plain |-> TRUE, id |-> Some(id), name |-> Some(name),
          sensor_type |-> Some("dht_temp"), sensor_id |-> Some("dht_temp"),
          min_value |-> Some(22), max_value |-> Some(30), enabled |-> Some(FALSE),
          webhook_url |-> Some("http://hook.example/alarm"),
          cooldown_ms |-> Some(MaxCooldown)]
    ELSE [plain |-> TRUE, id |-> Some(id), name |-> Some(name),
          sensor_type |-> Some("ds18b20"), sensor_id |-> Some("pool_temp"),
          min_value |-> Some(-5), max_value |-> Some(40), enabled |-> Some(FALSE),
          webhook_url |-> Some("http://hook.example/pool"), cooldown_ms |-> Some(0)]
RegistryWebhook(id, name) ==
    [plain |-> TRUE, id |-> Some(id), name |-> Some(name),
     url |-> Some("http://hook.example/update"), enabled |-> Some(TRUE),
     update_interval_ms |-> Some(0)]
RegistrySensorAdds ==
    {[plain |-> TRUE, address |-> Some("28:AA:00:00:00:00:00:01"), id |-> Some(id),
      name |-> Some("Pool")] : id \in {"pool_temp", "spa_temp"}}
RegistrySensorUpdates ==
    {[plain |-> TRUE, id |-> Some(id), name |-> Some("Pool")] :
        id \in {"pool_temp", "spa_temp"}}
RegistrySensorRemoves ==
    {[plain |-> TRUE, address |-> Some(a)] :
        a \in {"28:AA:00:00:00:00:00:01", "28:BB:00:00:00:00:00:02"}}

RegistrySetup ==
    \E found \in {<<>>, <<Some(ADDR_B)>>} : \E boot \in 1..MaxBootTime : setup(found, boot)
RegistryAddSensor ==
    /\ Len(ds18b20List) < MaxRegistrySensors
    /\ \E req \in RegistrySensorAdds : handleAddDS18B20(req)
RegistryUpdateSensor == \E req \in RegistrySensorUpdates : handleUpdateDS18B20(req)
RegistryRemoveSensor == \E req \in RegistrySensorRemoves : handleRemoveDS18B20(req)
RegistryAddAlarm ==
    /\ Len(alarms) < MaxRegistryAlarms
    /\ \E id \in RegistryAlarmIds : handleAddAlarm(RegistryAlarm(id, "Pool alarm"))
RegistryUpdateAlarm ==
    \E id \in RegistryAlarmIds : handleUpdateAlarm(RegistryAlarm(id, "Pool alarm"))
RegistryDeleteAlarm ==
    \E id \in RegistryAlarmIds : handleDeleteAlarm([plain |-> TRUE, id |-> Some(id)])
\* a POST without a body
RegistryAddAlarmNoBody == handleAddAlarm([plain |-> FALSE])
RegistryAddWebhook ==
    /\ Len(webhooks) < MaxRegistryWebhooks
    /\ handleAddWebhook(RegistryWebhook("hook_1", "Snapshot"))
RegistryUpdateWebhook == handleUpdateWebhook(RegistryWebhook("hook_1", "Renamed"))
RegistryDeleteWebhook == handleDeleteWebhook([plain |-> TRUE, id |-> Some("hook_1")])

NextRegistry ==
    \/ RegistrySetup
    \/ Reset
    \/ NoRequest
    \/ RegistryAddSensor
    \/ RegistryUpdateSensor
    \/ RegistryRemoveSensor
    \/ RegistryAddAlarm
    \/ RegistryAddAlarmNoBody
    \/ RegistryUpdateAlarm
    \/ RegistryDeleteAlarm
    \/ RegistryAddWebhook
    \/ RegistryUpdateWebhook
    \/ RegistryDeleteWebhook
    \/ CapacityReadSensors
    \/ CheckAlarms
    \/ SendScheduledWebhooks

SpecRegistry == Init /\ [][NextRegistry]_vars

(***************************************************************************)
(* Specification SpecDevice: a configured device                           *)
(*                                                                         *)
(* The store holds the sensor "pool_temp" with its enabled key false, the  *)
(* sensor "spa_temp", an alarm on "spa_temp" and a scheduled webhook.      *)
(* Clients read the snapshot and rename "spa_temp"; the DHT and the bus    *)
(* sensors answer or fail at every read; the device may be reset at any    *)
(* point.                                                                  *)
(***************************************************************************)
DeviceStore ==
    [ds18Count |-> 2,
     ds |-> << [addr |-> Some("28:AA:00:00:00:00:00:01"), id |-> Some("pool_temp"),
                name |-> Some("Pool"), en |-> Some(FALSE)],
               [addr |-> Some("28:BB:00:00:00:00:00:02"), id |-> Some("spa_temp"),
                name |-> Some("Spa"), en |-> Some(TRUE)] >>,
     alarmCount |-> 1,
     al |-> << [id |-> Some("alarm_1"), name |-> Some("Spa alarm"),
                type |-> Some("ds18b20"), sid |-> Some("spa_temp"),
                min |-> Some(-999), max |-> Some(30), en |-> Some(TRUE),
                url |-> Some("http://hook.example/alarm"), cd |-> Some(MaxCooldown)] >>,
     whCount |-> 1,
     wh |-> << [id |-> Some("hook_1"), name |-> Some("Snapshot"),
                url |-> Some("http://hook.example/update"), en |-> Some(TRUE),
                int |-> Some(MaxInterval)] >>,
     full |-> FALSE]

InitDevice == PowerOn(DeviceStore)

\* what the DHT returns for the humidity and for the temperature: both, or
\* one of them NaN
DeviceDhtReads == {<<Some(50), Some(22)>>, <<Absent, Some(22)>>, <<Some(50), Absent>>}
\* what getTempC returns for the registered sensors: "pool_temp" always answers,
\* "spa_temp" answers or is disconnected
DeviceBusReads == {<<25, v>> : v \in {DEVICE_DISCONNECTED_C, 31}}
\* rename requests: a registered sensor, and a sensor that is not registered
SensorRenames ==
    {[plain |-> TRUE, id |-> Some(id), name |-> Some("Deck")] :
        id \in {"spa_temp", "roof_temp"}}

DeviceSensorData == handleSensorData
DeviceUpdateSensor == \E req \in SensorRenames : handleUpdateDS18B20(req)
DeviceReadSensors ==
    \E dht \in DeviceDhtReads, temps \in DeviceBusReads :
        readSensors(dht[1], dht[2], temps, 0, 0)

NextDevice ==
    \/ Setup
    \/ Reset
    \/ NoRequest
    \/ DeviceSensorData
    \/ DeviceUpdateSensor
    \/ DeviceReadSensors
    \/ CheckAlarms
    \/ SendScheduledWebhooks

SpecDevice == InitDevice /\ [][NextDevice]_vars

(***************************************************************************)
(* Specification SpecFaults: a faulty store and sparse requests            *)
(*                                                                         *)
(* The store is empty, or it was cut off in the middle of a save: the      *)
(* alarm count says 2 and the keys of the second alarm were never written. *)
(* The partition fills up and is freed between loop iterations.  Clients   *)
(* add, update and delete alarms and add and update webhooks, with         *)
(* requests that leave members out or name a sensor kind that does not     *)
(* exist.  No sensor answers.                                              *)
(***************************************************************************)
TornStore ==
    [ds18Count |-> 1,
     ds |-> << [addr |-> Some("28:AA:00:00:00:00:00:01"), id |-> Some("pool_temp"),
                name |-> Some("Pool"), en |-> Some(TRUE)] >>,
     alarmCount |-> 2,
     al |-> << [id |-> Some("alarm_1"), name |-> Some("Light alarm"),
                type |-> Some("light"), sid |-> Some("light"),
                min |-> Some(-999), max |-> Some(999), en |-> Some(FALSE),
                url |-> Some("http://hook.example/alarm"), cd |-> Some(MaxCooldown)] >>,
     whCount |-> 1,
     wh |-> << [id |-> Some("hook_1"), name |-> Some("Snapshot"),
                url |-> Some("http://hook.example/update"), en |-> Some(FALSE),
                int |-> Some(MaxInterval)] >>,
     full |-> FALSE]

InitFaults == \E p \in {EmptyPrefs, TornStore} : PowerOn(p)

\* the partition runs out of free entries, or entries are freed, between two
\* iterations of the loop
storeFault(f) ==
    /\ pc = "handleClient"
    /\ prefs.full # f
    /\ prefs' = [prefs EXCEPT !.full = f]
    /\ UNCHANGED <<registry, readings, clock, pc, response, outbox, evalLog, cool, sent,
                   sampled, legacy>>

\* add / update requests for one alarm: with every member, without enabled and
\* cooldown_ms, with a sensor_type the sketch does not know, without sensor_type
FullAlarmRequest ==
    [plain |-> TRUE, id |-> Some("alarm_1"), name |-> Some("Light alarm"),
     sensor_type |-> Some("light"), sensor_id |-> Some("light"),
     min_value |-> Some(-999), max_value |-> Some(999), enabled |-> Some(FALSE),
     webhook_url |-> Some("http://hook.example/alarm"), cooldown_ms |-> Some(MaxCooldown)]
FaultsAlarmRequests ==
    {FullAlarmRequest,
     [FullAlarmRequest EXCEPT !.enabled = Absent, !.cooldown_ms = Absent],
     [FullAlarmRequest EXCEPT !.sensor_type = Some("pressure")],
     [FullAlarmRequest EXCEPT !.sensor_type = Absent]}

\* add / update requests for one webhook: with every member, without enabled and
\* update_interval_ms
FullWebhookRequest ==
    [plain |-> TRUE, id |-> Some("hook_1"), name |-> Some("Snapshot"),
     url |-> Some("http://hook.example/update"), enabled |-> Some(FALSE),
     update_interval_ms |-> Some(MaxInterval)]
FaultsWebhookRequests ==
    {FullWebhookRequest,
     [FullWebhookRequest EXCEPT !.enabled = Absent, !.update_interval_ms = Absent]}

FaultsSetup == \E boot \in 1..MaxBootTime : setup(<<>>, boot)
FaultsStoreFault == \E f \in BOOLEAN : storeFault(f)
FaultsAddAlarm ==
    /\ Len(alarms) < MaxModelAlarms
    /\ \E req \in FaultsAlarmRequests : handleAddAlarm(req)
FaultsUpdateAlarm == \E req \in FaultsAlarmRequests : handleUpdateAlarm(req)
FaultsDeleteAlarm == handleDeleteAlarm([plain |-> TRUE, id |-> Some("alarm_1")])
FaultsAddWebhook ==
    /\ Len(webhooks) < MaxModelWebhooks
    /\ \E req \in FaultsWebhookRequests : handleAddWebhook(req)
FaultsUpdateWebhook == \E req \in FaultsWebhookRequests : handleUpdateWebhook(req)

NextFaults ==
    \/ FaultsSetup
    \/ Reset
    \/ NoRequest
    \/ FaultsStoreFault
    \/ FaultsAddAlarm
    \/ FaultsUpdateAlarm
    \/ FaultsDeleteAlarm
    \/ FaultsAddWebhook
    \/ FaultsUpdateWebhook
    \/ CapacityReadSensors
    \/ CheckAlarms
    \/ SendScheduledWebhooks

SpecFaults == InitFaults /\ [][NextFaults]_vars

(***************************************************************************)
(* Specification SpecLive: the loop runs forever                           *)
(*                                                                         *)
(* The store holds one enabled alarm on the DHT temperature with a high    *)
(* bound and a cooldown.  No client sends a request and the device is not  *)
(* reset; loop() is called again whenever it returns, so that every phase  *)
(* that is due is eventually run.                                          *)
(***************************************************************************)
LiveStore ==
    [ds18Count |-> 0,
     ds |-> <<>>,
     alarmCount |-> 1,
     al |-> << [id |-> Some("alarm_1"), name |-> Some("Heat"),
                type |-> Some("dht_temp"), sid |-> Some("dht_temp"),
                min |-> Some(-999), max |-> Some(30), en |-> Some(TRUE),
                url |-> Some("http://hook.example/alarm"), cd |-> Some(MaxCooldown)] >>,
     whCount |-> 0,
     wh |-> <<>>,
     full |-> FALSE]

InitLive == PowerOn(LiveStore)

\* the DHT answers with a temperature within or above the bound, or not at all
LiveReadSensors ==
    \E t \in {Absent, Some(22), Some(31)} : readSensors(Some(50), t, <<>>, 0, 0)

NextLive ==
    \/ Setup
    \/ NoRequest
    \/ LiveReadSensors
    \/ CheckAlarms
    \/ SendScheduledWebhooks

SpecLive == InitLive /\ [][NextLive]_vars /\ WF_vars(NextLive)

(***************************************************************************)
(* Properties of the alarm evaluator                                       *)
(*                                                                         *)
(* evalLog and outbox are non-empty only in the state checkAlarms leaves   *)
(* (pc = "sendScheduledWebhooks"); alarms is then the array after the      *)
(* pass, with the thresholds and cooldown the pass evaluated.              *)
(***************************************************************************)
\* the evaluations of the pass that notified, in order: one per entry of outbox
Notified == SelectSeq(evalLog, LAMBDA e : e.notified)

\* C1: two consecutive notifications of an alarm (no restart, no delete or re-add,
\* cooldownMs unchanged in between) are more than cooldownMs apart: with T the
\* time lastTriggered was stamped by a notification, no evaluation up to T +
\* cooldownMs notifies, and an evaluation at T + cooldownMs + 1 of a reading
\* that is out of bounds does.
C1_CooldownSpacing ==
    \A k \in 1..Len(evalLog) :
        LET e == evalLog[k]
            cd == alarms[e.alarm].cooldownMs
        IN  (e.evaluated /\ e.before.since # Never /\ e.before.sameCooldown) =>
                /\ e.notified => e.before.since + e.before.took > cd
                /\ e.before.since <= cd => ~e.notified
                /\ (e.triggered /\ e.before.since = cd + 1) => e.notified

\* a second notification, exactly cooldownMs + 1 after the first, cooldownMs > 0
C1_Witness ==
    \E k \in 1..Len(evalLog) :
        LET e == evalLog[k]
            cd == alarms[e.alarm].cooldownMs
        IN  /\ e.notified
            /\ e.before.sameCooldown
            /\ cd = MaxCooldown
            /\ e.before.since = cd + 1

\* C2: an enabled alarm whose reading is out of bounds notifies at the first
\* evaluation after it was added or loaded (no notification stamped yet),
\* whatever the clock is.
C2_FirstTriggerImmediate ==
    \A k \in 1..Len(evalLog) :
        LET e == evalLog[k]
        IN  (e.evaluated /\ e.triggered /\ e.before.since = Never) => e.notified

\* C3: an evaluated alarm is triggered exactly when value < minValue or value >
\* maxValue; a value within the bounds never notifies; the message of a
\* notification names the low bound when value < minValue and the high bound
\* otherwise, with that bound's threshold.
C3_TriggerPredicate ==
    /\ \A k \in 1..Len(evalLog) :
          LET e == evalLog[k]
              a == alarms[e.alarm]
              v == e.currentValue
          IN  e.evaluated =>
                /\ e.triggered <=> (v < a.minValue \/ v > a.maxValue)
                /\ (a.minValue <= v /\ v <= a.maxValue) => ~e.notified
                /\ e.notified => e.triggered
    /\ pc = "sendScheduledWebhooks" =>
          /\ Len(outbox) = Len(Notified)
          /\ \A j \in 1..Len(outbox) :
                LET m == outbox[j]
                    a == alarms[Notified[j].alarm]
                    v == Notified[j].currentValue
                IN  /\ m.event = "alarm_triggered"
                    /\ m.value = v
                    /\ m.message.value = v
                    /\ m.message.bound = (IF v < a.minValue THEN "min" ELSE "max")
                    /\ m.message.threshold = (IF v < a.minValue THEN a.minValue ELSE a.maxValue)

\* a notification for a reading above the high bound, and naming it
C3_Witness ==
    \E j \in 1..Len(outbox) :
        /\ outbox[j].event = "alarm_triggered"
        /\ outbox[j].message.bound = "max"
        /\ outbox[j].value = 31
        /\ outbox[j].message.threshold = 30

\* C4: an alarm with minValue = -999 never triggers on its low side and an alarm
\* with maxValue = 999 never triggers on its high side, whatever the reading; the
\* other bound still triggers (minValue = -999, maxValue = 30, reading 31).
C4_SentinelDisablesBound ==
    \A k \in 1..Len(evalLog) :
        LET e == evalLog[k]
            a == alarms[e.alarm]
        IN  e.evaluated =>
                /\ a.minValue = DEFAULT_MIN => e.bound # "min"
                /\ a.maxValue = DEFAULT_MAX => e.bound # "max"
                /\ (a.minValue = DEFAULT_MIN /\ a.maxValue = 30 /\ e.currentValue = 31)
                      => e.triggered

\* C5 as claimed: an alarm stored with minValue > maxValue never notifies.
C5_OutOfOrderNeverTriggers ==
    \A k \in 1..Len(evalLog) :
        LET a == alarms[evalLog[k].alarm]
        IN  a.minValue > a.maxValue => ~evalLog[k].notified

\* C5 as amended: an enabled alarm stored with minValue > maxValue is triggered at
\* every evaluation, whatever the reading, and notifies exactly when its
\* cooldown test passes.
C5_OutOfOrderAlwaysTriggers ==
    \A k \in 1..Len(evalLog) :
        LET e == evalLog[k]
            a == alarms[e.alarm]
        IN  (e.evaluated /\ a.minValue > a.maxValue) =>
                /\ e.triggered
                /\ e.notified <=> e.elapsed > a.cooldownMs

\* an alarm with its bounds out of order was stored and notifies for a reading
\* that lies between them
C5_Witness ==
    \E k \in 1..Len(evalLog) :
        LET e == evalLog[k]
            a == alarms[e.alarm]
        IN  /\ e.notified
            /\ a.minValue > a.maxValue
            /\ a.maxValue < e.currentValue
            /\ e.currentValue <= a.minValue

\* C6: an enabled bus-kind alarm whose sensor id is not in the registry is
\* skipped: no notification (and so no new lastTriggered).
C6_UnresolvedSensorSkips ==
    \A k \in 1..Len(evalLog) :
        LET e == evalLog[k]
            a == alarms[e.alarm]
        IN  (e.evaluated /\ a.sensorType = SENSOR_DS18B20
                /\ \A i \in 1..Len(ds18b20List) : ds18b20List[i].id # a.sensorId)
            => ~e.notified

\* C7: a bus-kind alarm whose sensor is registered with enabled = FALSE gets
\* "unavailable" from the value source, whatever the sensor's lastReading: it is
\* not triggered and does not notify.
C7_DisabledSensorUnavailable ==
    \A k \in 1..Len(evalLog) :
        LET e == evalLog[k]
            a == alarms[e.alarm]
            HasId(s) == s.id = a.sensorId
            i == FirstIndex(ds18b20List, HasId)
        IN  (e.evaluated /\ a.sensorType = SENSOR_DS18B20 /\ i # 0
                /\ ~ds18b20List[IF i = 0 THEN 1 ELSE i].enabled)
            => ~e.notified

\* C8: no alarm_triggered notification carries the never-sampled value (-127) or
\* the unresolved-sensor value (-999) as its value.
C8_SentinelNeverObserved ==
    \A j \in 1..Len(outbox) :
        outbox[j].event = "alarm_triggered" =>
            outbox[j].value \notin {INITIAL_READING, UNRESOLVED_VALUE}

\* C9: whenever an alarm is triggered and its cooldown test passes, the
\* notification is attempted and lastTriggered is stamped with the time the
\* attempt returned, whether it was delivered, failed, or not made (WiFi down);
\* after an attempt that was not delivered the next one still comes more than
\* cooldownMs later.
C9_CooldownConsumed ==
    \A k \in 1..Len(evalLog) :
        LET e == evalLog[k]
            a == alarms[e.alarm]
        IN  /\ (e.evaluated /\ e.triggered /\ e.elapsed > a.cooldownMs) =>
                  /\ e.notified
                  /\ a.lastTriggered = (e.at + cool[e.alarm].took) % ClockMod
            /\ (e.notified /\ e.before.since # Never /\ e.before.sameCooldown
                    /\ e.before.delivery # "delivered") =>
                  e.before.since > a.cooldownMs

\* an attempt that was not delivered has stamped lastTriggered, and the one
\* before it was not delivered either
C9_Witness ==
    \E k \in 1..Len(evalLog) :
        LET e == evalLog[k]
            a == alarms[e.alarm]
        IN  /\ e.notified
            /\ cool[e.alarm].delivery \in {"http_error", "not_connected"}
            /\ a.lastTriggered = (e.at + cool[e.alarm].took) % ClockMod
            /\ a.lastTriggered # 0
            /\ e.before.since # Never
            /\ e.before.delivery \in {"http_error", "not_connected"}
            /\ a.cooldownMs = MaxCooldown

\* C10: while an alarm is disabled no step of the loop and no update changes its
\* lastTriggered, and checkAlarms neither evaluates it nor notifies for it; so
\* the update that enables it again finds the cooldown state it had.
C10_DisabledInert ==
    [][\A i \in 1..Len(alarms) :
          (~alarms[i].enabled /\ pc' # "setup" /\ Len(alarms') >= Len(alarms)) =>
              /\ alarms'[i].lastTriggered = alarms[i].lastTriggered
              /\ pc = "checkAlarms" =>
                    /\ ~evalLog'[i].evaluated
                    /\ ~evalLog'[i].notified
                    /\ Len(outbox') =
                          Cardinality({k \in 1..Len(evalLog') : evalLog'[k].notified})]_vars

\* a disabled alarm that notified before, skipped although its reading is out of
\* bounds and its cooldown has elapsed
C10_Witness ==
    \E k \in 1..Len(evalLog) :
        LET e == evalLog[k]
            a == alarms[e.alarm]
        IN  /\ ~e.evaluated
            /\ ~a.enabled
            /\ a.lastTriggered # 0
            /\ cool[e.alarm].since > a.cooldownMs
            /\ dhtTemperature < a.minValue

(***************************************************************************)
(* Properties of the scheduler                                             *)
(*                                                                         *)
(* A scheduler pass is the step from pc = "sendScheduledWebhooks" to       *)
(* pc = "handleClient"; sent' then tells which webhooks it found due.      *)
(***************************************************************************)
SchedulerPass == pc = "sendScheduledWebhooks" /\ pc' = "handleClient"

\* C11: a webhook with updateIntervalMs = 0, enabled or not, and a webhook with
\* enabled = FALSE, is never found due by a scheduler pass, however long ago its
\* last update was: the pass emits no scheduled_update for it (the pass's requests
\* are exactly those of the webhooks found due) and leaves its lastUpdate alone.
C11_ZeroIntervalNeverFires ==
    [][SchedulerPass =>
          /\ Len(outbox') = Cardinality({k \in 1..Len(sent') : sent'[k].fired})
          /\ \A i \in 1..Len(webhooks) :
                (webhooks[i].updateIntervalMs = 0 \/ ~webhooks[i].enabled)
                    => /\ ~sent'[i].fired
                       /\ webhooks'[i] = webhooks[i]]_vars

\* an enabled webhook that fired, was then updated to interval 0, and has since
\* been passed over by at least one scheduler pass, a long time after its update
C11_Witness ==
    /\ pc = "handleClient"
    /\ \E i \in 1..Len(webhooks) :
          /\ webhooks[i].enabled
          /\ webhooks[i].updateIntervalMs = 0
          /\ ~sent[i].fired
          /\ sent[i].since = ElapsedCap

\* C12: an enabled webhook with a nonzero interval that has not fired since it was
\* created or loaded at restart (lastSentAt = never) fires in the first scheduler
\* pass that looks at it.
C12_FiresOnFirstTick ==
    [][SchedulerPass =>
          \A i \in 1..Len(webhooks) :
              (webhooks[i].enabled /\ webhooks[i].updateIntervalMs > 0
                  /\ sent[i].since = Never)
                    => sent'[i].fired]_vars

\* C13: a webhook found due is stamped with the time its POST returned, whether the
\* POST was delivered, failed or was not made (the stamp is exactly as old as the
\* time that passed since), and it was not found due before updateIntervalMs passed
\* since its previous due-event (same boot, same entry, interval unchanged).
C13_IntervalConsumed ==
    [][SchedulerPass =>
          \A i \in 1..Len(webhooks) :
              sent'[i].fired
                => /\ sent'[i].since < ElapsedCap
                        => USub(clock', webhooks'[i].lastUpdate) = sent'[i].since
                   /\ (sent'[i].gap # Never /\ sent[i].sameInterval)
                        => sent'[i].gap >= webhooks[i].updateIntervalMs]_vars

\* an update whose POST was not made (network down) consumed the interval: a later
\* pass, begun less than the interval after, has passed the webhook over
C13_Witness ==
    /\ pc = "handleClient"
    /\ \E i \in 1..Len(webhooks) :
          /\ webhooks[i].enabled
          /\ webhooks[i].updateIntervalMs > 0
          /\ ~sent[i].fired
          /\ sent[i].delivery = "not_connected"
          /\ sent[i].sameInterval
          /\ sent[i].since # Never
          /\ sent[i].since <= webhooks[i].updateIntervalMs

(***************************************************************************)
(* Properties of the registry                                              *)
(*                                                                         *)
(* response'.op names the handler that served the request of a step taken  *)
(* from pc = "handleClient".                                               *)
(***************************************************************************)
Served(op) == pc = "handleClient" /\ response'.op = op

\* C14: the arrays never hold more than 8 sensors, 16 alarms and 8 webhooks (nor
\* does the store count more), and an add served while its array is full answers
\* 400 "Maximum ... reached" and changes neither the arrays nor the store.
C14_CapacityBound ==
    [][/\ Len(ds18b20List') <= MAX_DS18B20_SENSORS
       /\ Len(alarms') <= MAX_ALARMS
       /\ Len(webhooks') <= MAX_WEBHOOKS
       /\ prefs'.ds18Count <= MAX_DS18B20_SENSORS
       /\ prefs'.alarmCount <= MAX_ALARMS
       /\ prefs'.whCount <= MAX_WEBHOOKS
       /\ (Served("handleAddDS18B20") /\ Len(ds18b20List) = MAX_DS18B20_SENSORS)
            => /\ response'.code = 400
               /\ response'.text = "Maximum sensors reached"
               /\ UNCHANGED <<registry, prefs>>
       /\ (Served("handleAddAlarm") /\ Len(alarms) = MAX_ALARMS)
            => /\ response'.code = 400
               /\ response'.text = "Maximum alarms reached"
               /\ UNCHANGED <<registry, prefs>>
       /\ (Served("handleAddWebhook") /\ Len(webhooks) = MAX_WEBHOOKS)
            => /\ response'.code = 400
               /\ response'.text = "Maximum webhooks reached"
               /\ UNCHANGED <<registry, prefs>>]_vars

\* all three arrays are full, the sensors by the startup scan of a bus with nine
\* devices, and an add was just refused
C14_Witness ==
    /\ Len(ds18b20List) = MAX_DS18B20_SENSORS
    /\ ds18b20List[MAX_DS18B20_SENSORS].id = SeedId(MAX_DS18B20_SENSORS)
    /\ Len(alarms) = MAX_ALARMS
    /\ Len(webhooks) = MAX_WEBHOOKS
    /\ response.code = 400
    /\ response.op = "handleAddAlarm"

\* no two entries of s agree on Key
Distinct(s, Key(_)) == \A i, j \in 1..Len(s) : i # j => Key(s[i]) # Key(s[j])
IdOf(x) == x.id
AddressOf(x) == x.address

\* C15: no two sensors, no two alarms and no two webhooks share an id (an add under
\* an id that is already registered is rejected and appends nothing).
C15_IdsUnique ==
    /\ Distinct(ds18b20List, IdOf)
    /\ Distinct(alarms, IdOf)
    /\ Distinct(webhooks, IdOf)

\* C16: no two registered sensors have the same bus address, also after an add
\* naming an address that is already registered.
C16_AddressesUnique == Distinct(ds18b20List, AddressOf)

\* the step is an add that answered 200
Added(op) == Served(op) /\ response'.code = 200

\* C17: an add served below capacity with a body answers 200 (without a body, 400
\* and nothing changes); an add that answers 200 makes its array one longer, the
\* old entries unchanged in their places and the new entry last, with its runtime
\* fields at never / disconnected, and leaves the other arrays alone.
C17_AddAppends ==
    [][/\ (Served("handleAddDS18B20") /\ Len(ds18b20List) < MAX_DS18B20_SENSORS)
            => IF response'.req.plain THEN response'.code = 200
               ELSE response'.code = 400 /\ UNCHANGED <<registry, prefs>>
       /\ (Served("handleAddAlarm") /\ Len(alarms) < MAX_ALARMS)
            => IF response'.req.plain THEN response'.code = 200
               ELSE response'.code = 400 /\ UNCHANGED <<registry, prefs>>
       /\ (Served("handleAddWebhook") /\ Len(webhooks) < MAX_WEBHOOKS)
            => IF response'.req.plain THEN response'.code = 200
               ELSE response'.code = 400 /\ UNCHANGED <<registry, prefs>>
       /\ Added("handleAddDS18B20")
            => /\ Len(ds18b20List') = Len(ds18b20List) + 1
               /\ SubSeq(ds18b20List', 1, Len(ds18b20List)) = ds18b20List
               /\ ds18b20List'[Len(ds18b20List')].lastReading = -127
               /\ ds18b20List'[Len(ds18b20List')].enabled = TRUE
               /\ ds18b20List'[Len(ds18b20List')].id = JsonStr(response'.req.id)
               /\ UNCHANGED <<alarms, webhooks>>
       /\ Added("handleAddAlarm")
            => /\ Len(alarms') = Len(alarms) + 1
               /\ SubSeq(alarms', 1, Len(alarms)) = alarms
               /\ alarms'[Len(alarms')].lastTriggered = 0
               /\ alarms'[Len(alarms')].id = JsonStr(response'.req.id)
               /\ UNCHANGED <<ds18b20List, webhooks>>
       /\ Added("handleAddWebhook")
            => /\ Len(webhooks') = Len(webhooks) + 1
               /\ SubSeq(webhooks', 1, Len(webhooks)) = webhooks
               /\ webhooks'[Len(webhooks')].lastUpdate = 0
               /\ webhooks'[Len(webhooks')].id = JsonStr(response'.req.id)
               /\ UNCHANGED <<ds18b20List, alarms>>]_vars

\* an alarm was just added behind two others, under an id that differs from the
\* first entry's
C17_Witness ==
    /\ pc = "readSensors"
    /\ response.op = "handleAddAlarm"
    /\ response.code = 200
    /\ Len(alarms) = 3
    /\ alarms[3].id = JsonStr(response.req.id)
    /\ alarms[1].id # alarms[3].id

\* the key a remove / update request names, and the entries it matches
KeyId == JsonStr(response'.req.id)
KeyAddress == JsonStr(response'.req.address)
HitsById(s) == {i \in 1..Len(s) : s[i].id = KeyId}
HitsByAddress(s) == {i \in 1..Len(s) : addressToString(s[i].address) = KeyAddress}

NotFound(text) ==
    /\ response'.code = 404
    /\ response'.text = text
    /\ UNCHANGED <<registry, prefs>>

\* C18: a remove or update (with a body) whose key matches no entry answers 404
\* "... not found"; a step that answers 404 changes none of the three arrays,
\* creates no entry and writes nothing to the store, so repeating the request
\* meets the same state and gives the same answer.
C18_NotFoundUnchanged ==
    [][/\ (Served("handleRemoveDS18B20") /\ response'.req.plain
              /\ HitsByAddress(ds18b20List) = {}) => NotFound("Sensor not found")
       /\ (Served("handleUpdateDS18B20") /\ response'.req.plain
              /\ HitsById(ds18b20List) = {}) => NotFound("Sensor not found")
       /\ (Served("handleUpdateAlarm") /\ response'.req.plain
              /\ HitsById(alarms) = {}) => NotFound("Alarm not found")
       /\ (Served("handleDeleteAlarm") /\ response'.req.plain
              /\ HitsById(alarms) = {}) => NotFound("Alarm not found")
       /\ (Served("handleUpdateWebhook") /\ response'.req.plain
              /\ HitsById(webhooks) = {}) => NotFound("Webhook not found")
       /\ (Served("handleDeleteWebhook") /\ response'.req.plain
              /\ HitsById(webhooks) = {}) => NotFound("Webhook not found")
       /\ (pc = "handleClient" /\ response'.code = 404) => UNCHANGED <<registry, prefs>>]_vars

\* a delete named an id that none of the registered alarms has
C18_Witness ==
    /\ pc = "readSensors"
    /\ response.op = "handleDeleteAlarm"
    /\ response.code = 404
    /\ Len(alarms) = 2
    /\ prefs.alarmCount = 2

\* new is old with the entry of the least index in hits taken out
Compacted(old, new, hits) ==
    /\ hits # {}
    /\ LET i == CHOOSE h \in hits : \A g \in hits : h <= g
       IN  /\ Len(new) = Len(old) - 1
           /\ \A j \in 1..Len(new) : new[j] = IF j < i THEN old[j] ELSE old[j + 1]

\* the step is a remove that answered 200
Removed(op) == Served(op) /\ response'.code = 200

\* C19: a remove that answers 200 takes out exactly the first entry matching its
\* key: the array is one shorter, the entries before it keep their places, the
\* entries behind it move up by one in the same order with all their fields, and
\* the other arrays are unchanged.
C19_StableCompaction ==
    [][/\ Removed("handleRemoveDS18B20")
            => /\ Compacted(ds18b20List, ds18b20List', HitsByAddress(ds18b20List))
               /\ UNCHANGED <<alarms, webhooks>>
       /\ Removed("handleDeleteAlarm")
            => /\ Compacted(alarms, alarms', HitsById(alarms))
               /\ UNCHANGED <<ds18b20List, webhooks>>
       /\ Removed("handleDeleteWebhook")
            => /\ Compacted(webhooks, webhooks', HitsById(webhooks))
               /\ UNCHANGED <<ds18b20List, alarms>>]_vars

\* of three alarms the first of two with the id named was deleted: the other one
\* with that id is now second, behind an alarm with another id
C19_Witness ==
    /\ pc = "readSensors"
    /\ response.op = "handleDeleteAlarm"
    /\ response.code = 200
    /\ Len(alarms) = 2
    /\ alarms[1].id # alarms[2].id
    /\ alarms[2].id = JsonStr(response.req.id)

\* the store holds the registry: the counts, and under the keys of each index
\* below the count the persisted fields of the entry at that index
InSync ==
    /\ prefs.ds18Count = Len(ds18b20List)
    /\ prefs.alarmCount = Len(alarms)
    /\ prefs.whCount = Len(webhooks)
    /\ \A i \in 1..Len(ds18b20List) :
          Stored(prefs.ds, i, AbsentSensorRec) = SensorRec(ds18b20List[i])
    /\ \A i \in 1..Len(alarms) : Stored(prefs.al, i, AbsentAlarmRec) = AlarmRec(alarms[i])
    /\ \A i \in 1..Len(webhooks) :
          Stored(prefs.wh, i, AbsentWebhookRec) = WebhookRec(webhooks[i])

SameSensor(a, b) ==
    a.address = b.address /\ a.id = b.id /\ a.name = b.name /\ a.enabled = b.enabled
SameAlarm(a, b) ==
    /\ a.id = b.id /\ a.name = b.name /\ a.sensorType = b.sensorType
    /\ a.sensorId = b.sensorId /\ a.minValue = b.minValue /\ a.maxValue = b.maxValue
    /\ a.enabled = b.enabled /\ a.webhookUrl = b.webhookUrl /\ a.cooldownMs = b.cooldownMs
SameWebhook(a, b) ==
    /\ a.id = b.id /\ a.name = b.name /\ a.url = b.url /\ a.enabled = b.enabled
    /\ a.updateIntervalMs = b.updateIntervalMs

SensorKeys == {"addr", "id", "name", "en"}
AlarmKeys == {"id", "name", "type", "sid", "min", "max", "en", "url", "cd"}
WebhookKeys == {"id", "name", "url", "en", "int"}

\* the store has no key other than the persisted fields of each index
PersistedKeysOnly ==
    /\ \A i \in 1..Len(prefs.ds) : DOMAIN prefs.ds[i] = SensorKeys
    /\ \A i \in 1..Len(prefs.al) : DOMAIN prefs.al[i] = AlarmKeys
    /\ \A i \in 1..Len(prefs.wh) : DOMAIN prefs.wh[i] = WebhookKeys

\* C22: every setup leaves each loaded alarm with lastTriggered = 0, each loaded
\* webhook with lastUpdate = 0 and each loaded sensor with lastReading = -127,
\* and no step writes a key for one of these three fields to the store.
C22_RuntimeFieldsReset ==
    [][/\ (pc = "setup") =>
            /\ \A i \in 1..Len(alarms') : alarms'[i].lastTriggered = 0
            /\ \A i \in 1..Len(webhooks') : webhooks'[i].lastUpdate = 0
            /\ \A i \in 1..Len(ds18b20List') :
                  ds18b20List'[i].lastReading = DEVICE_DISCONNECTED_C
       /\ PersistedKeysOnly']_vars

\* setup has loaded both sensors, the alarm and the webhook, "spa_temp" under the
\* name a client gave it before the restart, and no tick has run since
C22_Witness ==
    /\ pc = "handleClient"
    /\ clock = 1
    /\ Len(ds18b20List) = 2 /\ Len(alarms) = 1 /\ Len(webhooks) = 1
    /\ ds18b20List[2].name = "Deck"
    /\ ds18b20List[2].lastReading = DEVICE_DISCONNECTED_C
    /\ alarms[1].lastTriggered = 0
    /\ webhooks[1].lastUpdate = 0
    /\ cool[1].since = Never
    /\ sent[1].since = Never

(***************************************************************************)
(* Properties of the sampler and of the snapshot                           *)
(***************************************************************************)
\* C25: a readSensors whose DHT read gave NaN for either value leaves both cached
\* DHT values as they were, and one whose bus read of a sensor gave the
\* disconnected code leaves that sensor's lastReading as it was; between two
\* restarts a cached DHT value or a lastReading changes only in a readSensors
\* whose read of it succeeded.
C25_StickyLastGood ==
    [][(pc # "setup" /\ pc' # "setup") =>
          /\ (pc = "readSensors" /\ (isnan(sampled'.h) \/ isnan(sampled'.t)))
                => UNCHANGED <<dhtTemperature, dhtHumidity>>
          /\ (dhtTemperature' # dhtTemperature \/ dhtHumidity' # dhtHumidity)
                => pc = "readSensors" /\ ~isnan(sampled'.h) /\ ~isnan(sampled'.t)
          /\ Len(ds18b20List') = Len(ds18b20List)
          /\ \A i \in 1..Len(ds18b20List) :
                /\ (pc = "readSensors" /\ sampled'.temps[i] = DEVICE_DISCONNECTED_C)
                      => ds18b20List'[i].lastReading = ds18b20List[i].lastReading
                /\ (ds18b20List'[i].lastReading # ds18b20List[i].lastReading)
                      => pc = "readSensors" /\ sampled'.temps[i] # DEVICE_DISCONNECTED_C
      ]_vars

\* the DHT gave NaN for the humidity and "spa_temp" was disconnected, and the
\* earlier temperature, humidity and reading are still cached
C25_Witness ==
    /\ pc = "checkAlarms"
    /\ sampled.taken
    /\ isnan(sampled.h)
    /\ sampled.temps[2] = DEVICE_DISCONNECTED_C
    /\ dhtTemperature = 22
    /\ dhtHumidity = 50
    /\ ds18b20List[2].lastReading = 31

\* the ids of the enabled sensors, in registry order
RECURSIVE EnabledIds(_)
EnabledIds(list) ==
    IF list = <<>> THEN <<>>
    ELSE LET rest == EnabledIds(SubSeq(list, 1, Len(list) - 1))
             s == list[Len(list)]
         IN  IF s.enabled THEN Append(rest, s.id) ELSE rest

Ids(entries) == [j \in 1..Len(entries) |-> entries[j].id]

\* the snapshot just served, and every scheduled update just posted, lists the
\* enabled sensors and no other
ListsEnabledOnly ==
    /\ (response.op = "handleSensorData") =>
          Ids(response.text.ds18b20) = EnabledIds(ds18b20List)
    /\ \A k \in 1..Len(outbox) :
          (outbox[k].event = "scheduled_update") =>
              Ids(outbox[k].ds18b20_sensors) = EnabledIds(ds18b20List)

\* C26: no step of the loop changes a sensor whose enabled flag is false (it is
\* not polled), and the GET snapshot and every scheduled_update payload list the
\* sensors whose enabled flag is true, in registry order, and no disabled one.
C26_EnabledOnly ==
    [][/\ (pc \in {"readSensors", "checkAlarms", "sendScheduledWebhooks"} /\ pc' # "setup")
            => /\ Len(ds18b20List') = Len(ds18b20List)
               /\ \A i \in 1..Len(ds18b20List) :
                     ~ds18b20List[i].enabled => ds18b20List'[i] = ds18b20List[i]
       /\ ListsEnabledOnly']_vars

\* a scheduled update was just posted with one sensor of the two registered: the
\* disabled one has no reading although the bus answered for it
C26_Witness ==
    /\ pc = "handleClient"
    /\ Len(outbox) = 1
    /\ outbox[1].event = "scheduled_update"
    /\ Len(outbox[1].ds18b20_sensors) = 1
    /\ outbox[1].ds18b20_sensors[1].temperature = 31
    /\ Len(ds18b20List) = 2
    /\ ~ds18b20List[1].enabled
    /\ ds18b20List[1].lastReading = DEVICE_DISCONNECTED_C

\* C27: an update-sensor request answered 200 changes the name of the first
\* sensor with the requested id to the requested name and nothing else: that
\* sensor's id, address, enabled flag and lastReading, every other sensor, the
\* alarms and the webhooks are as before.
C27_RenameOnly ==
    [][(Served("handleUpdateDS18B20") /\ response'.code = 200) =>
          /\ UNCHANGED <<alarms, webhooks>>
          /\ Len(ds18b20List') = Len(ds18b20List)
          /\ \E i \in 1..Len(ds18b20List) :
                /\ ds18b20List[i].id = JsonStr(response'.req.id)
                /\ \A j \in 1..(i - 1) : ds18b20List[j].id # ds18b20List[i].id
                /\ ds18b20List'[i].name = JsonStr(response'.req.name)
                /\ ds18b20List'[i].id = ds18b20List[i].id
                /\ ds18b20List'[i].address = ds18b20List[i].address
                /\ ds18b20List'[i].enabled = ds18b20List[i].enabled
                /\ ds18b20List'[i].lastReading = ds18b20List[i].lastReading
                /\ \A j \in 1..Len(ds18b20List) :
                      j # i => ds18b20List'[j] = ds18b20List[j]
      ]_vars

\* "spa_temp" was just renamed while it held a live reading
C27_Witness ==
    /\ pc = "readSensors"
    /\ response.op = "handleUpdateDS18B20"
    /\ response.code = 200
    /\ ds18b20List[1].name = "Pool"
    /\ ds18b20List[2].name = "Deck"
    /\ ds18b20List[2].lastReading = 31

(***************************************************************************)
(* Properties of the handlers under faults and sparse requests             *)
(***************************************************************************)
\* the handlers that change the registry
MutationOps ==
    {"handleAddDS18B20", "handleRemoveDS18B20", "handleUpdateDS18B20",
     "handleAddAlarm", "handleUpdateAlarm", "handleDeleteAlarm",
     "handleAddWebhook", "handleUpdateWebhook", "handleDeleteWebhook"}

\* C23: a mutation served while the store takes no write is not answered 200 and
\* leaves the sensors, the alarms and the webhooks in memory as they were.
C23_FailedWriteRollsBack ==
    [][(pc = "handleClient" /\ pc' = "readSensors" /\ response'.op \in MutationOps
            /\ prefs.full)
          => /\ response'.code # 200
             /\ UNCHANGED registry]_vars

\* the records below the count that have their id key
WellFormed(recs, count, absentRec) ==
    SelectSeq([i \in 1..count |-> Stored(recs, i, absentRec)], LAMBDA r : r.id # Absent)

\* C24: setup loads, in store order, the records whose id key is present and no
\* entry for a record whose id key is missing, for each of the three kinds.
C24_MalformedSkipped ==
    [][(pc = "setup") =>
          LET ds == WellFormed(prefs.ds, prefs.ds18Count, AbsentSensorRec)
              al == WellFormed(prefs.al, prefs.alarmCount, AbsentAlarmRec)
              wh == WellFormed(prefs.wh, prefs.whCount, AbsentWebhookRec)
          IN  /\ ds18b20List' = [i \in 1..Len(ds) |-> LoadSensor(ds[i])]
              /\ alarms' = [i \in 1..Len(al) |-> LoadAlarm(al[i])]
              /\ webhooks' = [i \in 1..Len(wh) |-> LoadWebhook(wh[i])]]_vars

\* the entry an add appended or an update changed: the last one, or the first
\* one with the requested id
Target(op, list, req) ==
    IF op \in {"handleAddAlarm", "handleAddWebhook"} THEN list[Len(list)]
    ELSE LET HasId(x) == x.id = JsonStr(req.id) IN list[FirstIndex(list, HasId)]

\* C28: the alarm that an add or an update answered 200 has stored is enabled
\* when the request had no `enabled` and has the flag of the request otherwise,
\* and has cooldownMs = 60000 when the request had no `cooldown_ms` and the
\* cooldown of the request otherwise.
C28_AlarmDefaults ==
    [][(pc = "handleClient" /\ response'.op \in {"handleAddAlarm", "handleUpdateAlarm"}
            /\ response'.code = 200)
          => LET req == response'.req
                 a == Target(response'.op, alarms', req)
             IN  /\ a.enabled = JsonOr(req.enabled, TRUE)
                 /\ a.cooldownMs = JsonOr(req.cooldown_ms, DEFAULT_COOLDOWN)]_vars

\* C29: the webhook that an add or an update answered 200 has stored is enabled
\* when the request had no `enabled` and has the flag of the request otherwise,
\* and has updateIntervalMs = 0 when the request had no `update_interval_ms` and
\* the interval of the request otherwise.
C29_WebhookDefaults ==
    [][(pc = "handleClient" /\ response'.op \in {"handleAddWebhook", "handleUpdateWebhook"}
            /\ response'.code = 200)
          => LET req == response'.req
                 w == Target(response'.op, webhooks', req)
             IN  /\ w.enabled = JsonOr(req.enabled, TRUE)
                 /\ w.updateIntervalMs = JsonOr(req.update_interval_ms, 0)]_vars

SensorKinds == {"ds18b20", "dht_temp", "dht_hum", "light", "motion"}

\* C30: an add-alarm or update-alarm request with a body whose sensor_type is
\* missing or is none of the five kinds is not answered 200 and leaves the alarms
\* as they were.
C30_UnknownKindRejected ==
    [][(pc = "handleClient" /\ response'.op \in {"handleAddAlarm", "handleUpdateAlarm"}
            /\ response'.req.plain
            /\ JsonStr(response'.req.sensor_type) \notin SensorKinds)
          => /\ response'.code # 200
             /\ UNCHANGED alarms]_vars

(***************************************************************************)
(* Properties of the control loop                                          *)
(***************************************************************************)
\* the calls of loop(), in order, and setup() before the first
LoopOrder ==
    {<<"setup", "handleClient">>, <<"handleClient", "readSensors">>,
     <<"readSensors", "checkAlarms">>, <<"checkAlarms", "sendScheduledWebhooks">>,
     <<"sendScheduledWebhooks", "handleClient">>}

\* C31: the phases of an iteration follow each other in the order request
\* servicing, sampling, evaluation, dispatch (only a restart breaks the order);
\* the evaluation reads the values the sampling of the same iteration cached,
\* with the alarms as the request of the iteration left them, and a scheduled
\* update carries the cached values and the sensor names of that moment.
C31_TickOrder ==
    [][/\ (pc' # pc /\ pc' # "setup") => <<pc, pc'>> \in LoopOrder
       /\ (pc = "readSensors" /\ pc' = "checkAlarms") =>
             /\ UNCHANGED <<alarms, webhooks>>
             /\ \A i \in 1..Len(ds18b20List) :
                   (ds18b20List[i].enabled /\ sampled'.temps[i] # DEVICE_DISCONNECTED_C)
                      => ds18b20List'[i].lastReading = sampled'.temps[i]
       /\ (pc = "checkAlarms" /\ pc' = "sendScheduledWebhooks") =>
             /\ sampled.taken
             /\ UNCHANGED <<ds18b20List, readings>>
             /\ Len(evalLog') = Len(alarms)
             /\ \A k \in 1..Len(evalLog') :
                   evalLog'[k].evaluated =>
                      evalLog'[k].currentValue =
                          getSensorValue(alarms[k].sensorType, alarms[k].sensorId)
       /\ (pc = "sendScheduledWebhooks" /\ pc' = "handleClient") =>
             /\ UNCHANGED <<ds18b20List, readings>>
             /\ \A k \in 1..Len(outbox') :
                   /\ outbox'[k].dht_temperature = dhtTemperature
                   /\ outbox'[k].dht_humidity = dhtHumidity
                   /\ outbox'[k].ds18b20_sensors =
                         LET en == SelectSeq(ds18b20List, LAMBDA s : s.enabled)
                         IN  [j \in 1..Len(en) |->
                                 [id |-> en[j].id, name |-> en[j].name,
                                  temperature |-> en[j].lastReading]]
      ]_vars

\* a scheduled update was just posted with the DHT values and the bus reading
\* sampled in this iteration and with the name a client gave the sensor
C31_Witness ==
    /\ pc = "handleClient"
    /\ Len(outbox) = 1
    /\ outbox[1].event = "scheduled_update"
    /\ outbox[1].dht_temperature = 22
    /\ Len(outbox[1].ds18b20_sensors) = 1
    /\ outbox[1].ds18b20_sensors[1].name = "Deck"
    /\ outbox[1].ds18b20_sensors[1].temperature = 31

\* the alarms a pass notified for, in the order of its requests
NotifiedAlarms(log) ==
    LET n == SelectSeq(log, LAMBDA en : en.notified) IN [j \in 1..Len(n) |-> n[j].alarm]
\* the webhooks a pass found due, in index order
RECURSIVE FiredWebhooks(_)
FiredWebhooks(s) ==
    IF s = <<>> THEN <<>>
    ELSE LET rest == FiredWebhooks(SubSeq(s, 1, Len(s) - 1))
         IN  IF s[Len(s)].fired THEN Append(rest, Len(s)) ELSE rest

OutOfBounds ==
    /\ Len(alarms) = 1
    /\ alarms[1].enabled
    /\ LET v == getSensorValue(alarms[1].sensorType, alarms[1].sensorId)
       IN  v < alarms[1].minValue \/ v > alarms[1].maxValue

\* checkAlarms has just called sendWebhookPost for the alarm
JustNotified ==
    /\ pc = "sendScheduledWebhooks"
    /\ Len(evalLog) = 1
    /\ evalLog[1].notified

\* C33: if from some moment on the alarm is enabled and its value is out of
\* bounds at every moment, then the alarm notifies again and again, without the
\* value coming back within bounds in between.
C33_LevelTriggered == (<>[]OutOfBounds) => ([]<>JustNotified)

\* the alarm notifies for a value above its bound, after it had notified before
C33_Witness ==
    /\ JustNotified
    /\ OutOfBounds
    /\ evalLog[1].before.since # Never
    /\ evalLog[1].before.since > alarms[1].cooldownMs

(***************************************************************************)
(* A hub whose store holds two alarms and two webhooks, the first of each  *)
(* disabled: the second ones fire and carry stamps while requests update   *)
(* and delete entries.                                                     *)
(***************************************************************************)
StampsStore ==
    [ds18Count |-> 0,
     ds |-> <<>>,
     alarmCount |-> 2,
     al |-> << [id |-> Some("alarm_1"), name |-> Some("Light alarm"),
                type |-> Some("light"), sid |-> Some("light"),
                min |-> Some(-999), max |-> Some(999), en |-> Some(FALSE),
                url |-> Some("http://hook.example/alarm"), cd |-> Some(0)],
               [id |-> Some("alarm_2"), name |-> Some("Heat"),
                type |-> Some("dht_temp"), sid |-> Some("dht_temp"),
                min |-> Some(-999), max |-> Some(30), en |-> Some(TRUE),
                url |-> Some("http://hook.example/alarm"), cd |-> Some(MaxCooldown)] >>,
     whCount |-> 2,
     wh |-> << [id |-> Some("hook_1"), name |-> Some("Archive"),
                url |-> Some("http://hook.example/archive"), en |-> Some(FALSE),
                int |-> Some(0)],
               [id |-> Some("hook_2"), name |-> Some("Snapshot"),
                url |-> Some("http://hook.example/update"), en |-> Some(TRUE),
                int |-> Some(MaxInterval)] >>,
     full |-> FALSE]

InitStamps == PowerOn(StampsStore)

\* the second alarm is switched off and given another cooldown
StampsAlarmUpdate ==
    [plain |-> TRUE, id |-> Some("alarm_2"), name |-> Some("Heat"),
     sensor_type |-> Some("dht_temp"), sensor_id |-> Some("dht_temp"),
     min_value |-> Some(-999), max_value |-> Some(30), enabled |-> Some(FALSE),
     webhook_url |-> Some("http://hook.example/alarm"), cooldown_ms |-> Some(0)]
\* the second webhook is switched off and given another interval
StampsWebhookUpdate ==
    [plain |-> TRUE, id |-> Some("hook_2"), name |-> Some("Snapshot"),
     url |-> Some("http://hook.example/update"), enabled |-> Some(FALSE),
     update_interval_ms |-> Some(0)]

\* the temperature is above the bound of the second alarm throughout
StampsReadSensors == readSensors(Some(50), Some(31), <<>>, 0, 0)
\* every iteration of the loop takes one clock unit, plus its POSTs
StampsSendScheduledWebhooks == sendScheduledWebhooks(1)
StampsUpdateAlarm == handleUpdateAlarm(StampsAlarmUpdate)
StampsDeleteAlarm == handleDeleteAlarm([plain |-> TRUE, id |-> Some("alarm_1")])
StampsUpdateWebhook == handleUpdateWebhook(StampsWebhookUpdate)
StampsDeleteWebhook == handleDeleteWebhook([plain |-> TRUE, id |-> Some("hook_1")])

NextStamps ==
    \/ Setup
    \/ NoRequest
    \/ StampsUpdateAlarm
    \/ StampsDeleteAlarm
    \/ StampsUpdateWebhook
    \/ StampsDeleteWebhook
    \/ StampsReadSensors
    \/ CheckAlarms
    \/ StampsSendScheduledWebhooks

SpecStamps == InitStamps /\ [][NextStamps]_vars

(***************************************************************************)
(* The fixed-configuration sketch esp32_webserver_webhook.ino: loop() with *)
(* its motion webhook and its five-minute temperature check.  The loop of  *)
(* esp32_configurable_sensors.ino has the same two blocks.  The sketch     *)
(* names the cached DHT values temperature and humidity.                   *)
(***************************************************************************)
MOTION_COOLDOWN == 60000
TEMP_THRESHOLD == 30
\* if (millis() - lastTempCheck > 300000)
TempCheckEvery == 300000

LegacyClockMod == 2 ^ LegacyClockBits

\* millis() - last in the unsigned arithmetic of the counter, in milliseconds
LegacyElapsed(now, last) == ((now - last) % LegacyClockMod) * MsPerClock

\* mutant: a cooldown that has just run out is enough
MotionCooldownReached(now, last) == LegacyElapsed(now, last) >= MOTION_COOLDOWN

\* millis() - lastMotionWebhook > MOTION_COOLDOWN
MotionCooldownPassed(now, last) == LegacyElapsed(now, last) > MOTION_COOLDOWN

\* cool[1] in this sketch is the history of the motion webhook: since = real
\* time since sendWebhook("motion_detected", ...) was last called (Never if it
\* was not), took and delivery = how long that call took and how it ended,
\* gap and before = since and delivery as they were when it was called
NoMotionHistory ==
    [since |-> Never, took |-> 0, delivery |-> "", gap |-> Never, before |-> ""]

\* setup(): pins, WiFi, routes; boot: how long it took
legacySetup(boot) ==
    /\ pc = "setup"
    /\ clock' = (clock + boot) % LegacyClockMod
    /\ cool' = <<NoMotionHistory>>
    /\ pc' = "handleClient"
    /\ UNCHANGED <<registry, readings, prefs, response, outbox, evalLog, sent, sampled,
                   legacy>>

\* server.handleClient(); took: how long the request took (handleRelay and
\* handleLED post relay_changed / led_changed before they answer)
legacyHandleClient(took) ==
    /\ pc = "handleClient"
    /\ clock' = (clock + took) % LegacyClockMod
    /\ cool' = Elapse(cool, took)
    /\ outbox' = <<>>
    /\ pc' = "readSensors"
    /\ UNCHANGED <<registry, readings, prefs, response, evalLog, sent, sampled, legacy>>

\* readSensors() of the sketch: DHT, PIR and LDR only
legacyReadSensors(h, t, pir, rawLight) ==
    /\ pc = "readSensors"
    /\ IF ~isnan(h) /\ ~isnan(t)
       THEN dhtHumidity' = h[1] /\ dhtTemperature' = t[1]
       ELSE UNCHANGED <<dhtHumidity, dhtTemperature>>
    /\ motionDetected' = pir
    /\ lightLevel' = map(rawLight, 0, 4095, 0, 100)
    /\ pc' = "checkMotion"
    /\ UNCHANGED <<registry, clock, prefs, response, outbox, evalLog, cool, sent, sampled,
                   legacy>>

\* the motion block of loop(); answer: how the webhook ends if it is sent
checkMotion(answer) ==
    /\ pc = "checkMotion"
    /\ IF motionDetected # 0 /\ MotionCooldownPassed(clock, lastMotionWebhook)
       THEN /\ outbox' = Append(outbox, [event |-> "motion_detected",
                                         delivery |-> answer.delivery])
            /\ clock' = (clock + answer.took) % LegacyClockMod
            /\ lastMotionWebhook' = clock'
            /\ cool' = <<[since |-> answer.took, took |-> answer.took,
                          delivery |-> answer.delivery,
                          gap |-> cool[1].since, before |-> cool[1].delivery]>>
       ELSE /\ answer = NoPost
            /\ UNCHANGED <<outbox, clock, lastMotionWebhook, cool>>
    /\ pc' = "checkTemperature"
    /\ UNCHANGED <<registry, readings, prefs, response, evalLog, sent, sampled,
                   lastTempCheck>>

\* the temperature block of loop() and delay(100); answer: how the webhook ends
\* if it is sent; step: how long the delay and the return to loop() took
checkTemperature(answer, step) ==
    /\ pc = "checkTemperature"
    /\ IF LegacyElapsed(clock, lastTempCheck) > TempCheckEvery
       THEN /\ IF dhtTemperature > TEMP_THRESHOLD
               THEN outbox' = Append(outbox, [event |-> "high_temperature",
                                              delivery |-> answer.delivery])
               ELSE answer = NoPost /\ UNCHANGED outbox
            /\ lastTempCheck' = (clock + answer.took) % LegacyClockMod
       ELSE /\ answer = NoPost
            /\ UNCHANGED <<outbox, lastTempCheck>>
    /\ clock' = (clock + answer.took + step) % LegacyClockMod
    /\ cool' = Elapse(cool, answer.took + step)
    /\ pc' = "handleClient"
    /\ UNCHANGED <<registry, readings, prefs, response, evalLog, sent, sampled,
                   lastMotionWebhook>>

InitLegacy == PowerOn(EmptyPrefs)
LegacySetup == \E boot \in 1..MaxBootTime : legacySetup(boot)
LegacyHandleClient == \E took \in 0..MaxSendDelay : legacyHandleClient(took)
LegacyReadSensors ==
    \E t \in {Absent, Some(22), Some(31)} : \E pir \in {0, 1} :
        legacyReadSensors(Some(50), t, pir, 0)
CheckMotion == \E answer \in PostAnswers : checkMotion(answer)
CheckTemperature ==
    \E answer \in PostAnswers : \E step \in 0..MaxLoopStep : checkTemperature(answer, step)

NextLegacy ==
    \/ LegacySetup
    \/ LegacyHandleClient
    \/ LegacyReadSensors
    \/ CheckMotion
    \/ CheckTemperature

SpecLegacy == InitLegacy /\ [][NextLegacy]_vars

(***************************************************************************)
(* Properties of the bus scan                                              *)
(***************************************************************************)
\* C34: when the store holds at least one sensor, setup leaves the sensors as
\* loaded and the store as it was; when it holds none, setup registers at most
\* 8 sensors, each enabled, with lastReading = -127 and the id ds18b20_<index>
\* (pairwise distinct), and writes them to the store exactly when there is at
\* least one.  The scan request changes neither the registry nor the store.
C34_SeedOnlyWhenEmpty ==
    [][/\ (pc = "setup") =>
             LET loaded == loadSensors(prefs)
             IN  IF Len(loaded) > 0
                 THEN ds18b20List' = loaded /\ prefs' = prefs
                 ELSE /\ Len(ds18b20List') <= MAX_DS18B20_SENSORS
                      /\ \A i \in 1..Len(ds18b20List') :
                            /\ ds18b20List'[i].enabled
                            /\ ds18b20List'[i].lastReading = DEVICE_DISCONNECTED_C
                            /\ ds18b20List'[i].id = "ds18b20_" \o ToString(i)
                      /\ \A i, j \in 1..Len(ds18b20List') :
                            i # j => ds18b20List'[i].id # ds18b20List'[j].id
                      /\ IF Len(ds18b20List') > 0
                         THEN /\ prefs'.ds18Count = Len(ds18b20List')
                              /\ \A i \in 1..Len(ds18b20List') :
                                    prefs'.ds[i] = SensorRec(ds18b20List'[i])
                         ELSE prefs' = prefs
       /\ Served("handleScanDS18B20") => UNCHANGED <<registry, prefs>>]_vars

\* the scan request found nine devices on the bus; the registry holds the eight
\* that setup had registered from the same bus
C34_Witness ==
    /\ pc = "readSensors"
    /\ response.op = "handleScanDS18B20"
    /\ response.text.count = MAX_DS18B20_SENSORS + 1
    /\ Len(ds18b20List) = MAX_DS18B20_SENSORS
    /\ \A i \in 1..Len(ds18b20List) : ds18b20List[i].id = SeedId(i)
    /\ prefs.ds18Count = MAX_DS18B20_SENSORS

(***************************************************************************)
(* Properties of the fixed-configuration sketches                          *)
(***************************************************************************)
\* a step of the motion block that calls sendWebhook("motion_detected", ...)
MotionAttempt == pc = "checkMotion" /\ Len(outbox') > Len(outbox)

\* C35: a motion webhook is attempted only while motionDetected is not 0 and,
\* unless it is the first, strictly more than MOTION_COOLDOWN of real time
\* after the attempt before it; lastMotionWebhook is set to the time after
\* the attempt however it ended, and changes in no other step.
C35_MotionCooldown ==
    [][/\ MotionAttempt =>
             /\ motionDetected # 0
             /\ cool[1].since = Never \/ cool[1].since * MsPerClock > MOTION_COOLDOWN
             /\ outbox'[Len(outbox')].event = "motion_detected"
             /\ lastMotionWebhook' = clock'
       /\ ~MotionAttempt => lastMotionWebhook' = lastMotionWebhook]_vars

\* a second motion webhook has just been attempted, after the counter wrapped
\* around, the first one having ended in an HTTP error
C35_Witness ==
    /\ pc = "checkTemperature"
    /\ Len(outbox) = 1
    /\ outbox[1].event = "motion_detected"
    /\ cool[1].gap # Never
    /\ cool[1].before = "http_error"
    /\ cool[1].delivery = "not_connected"
    /\ lastMotionWebhook = clock
    /\ clock < MOTION_COOLDOWN \div MsPerClock

(***************************************************************************)
(* Properties of the stamps under update and delete                        *)
(***************************************************************************)
\* the entries of after are those of before whose id is not gone, each with the
\* stamp it had (field is "lastTriggered" or "lastUpdate")
KeptStamps(before, after, gone, field) ==
    /\ \A j \in 1..Len(before) :
          before[j].id # gone =>
             \E k \in 1..Len(after) :
                after[k].id = before[j].id /\ after[k][field] = before[j][field]
    /\ \A k \in 1..Len(after) :
          \E j \in 1..Len(before) :
             /\ before[j].id # gone
             /\ after[k].id = before[j].id /\ after[k][field] = before[j][field]

\* every entry of after has the id and the stamp of the entry of before at its
\* index
SameStamps(before, after, field) ==
    /\ Len(after) = Len(before)
    /\ \A j \in 1..Len(before) :
          after[j].id = before[j].id /\ after[j][field] = before[j][field]

\* C36: a delete that is served with 200 leaves every other entry, found by its
\* id, with the stamp it had (lastTriggered of an alarm, lastUpdate of a
\* webhook) and hands no entry the stamp of another; an update leaves every
\* entry, the updated one included, at its index with its stamp; a request
\* answered otherwise, and a request for the other array, changes no stamp.
C36_StampsFollowEntries ==
    [][/\ Served("handleDeleteAlarm") =>
             /\ IF response'.code = 200
                THEN /\ Len(alarms') = Len(alarms) - 1
                     /\ KeptStamps(alarms, alarms', JsonStr(response'.req.id), "lastTriggered")
                ELSE alarms' = alarms
             /\ webhooks' = webhooks
       /\ Served("handleUpdateAlarm") =>
             /\ SameStamps(alarms, alarms', "lastTriggered")
             /\ webhooks' = webhooks
       /\ Served("handleDeleteWebhook") =>
             /\ IF response'.code = 200
                THEN /\ Len(webhooks') = Len(webhooks) - 1
                     /\ KeptStamps(webhooks, webhooks', JsonStr(response'.req.id), "lastUpdate")
                ELSE webhooks' = webhooks
             /\ alarms' = alarms
       /\ Served("handleUpdateWebhook") =>
             /\ SameStamps(webhooks, webhooks', "lastUpdate")
             /\ alarms' = alarms]_vars

\* the first webhook has just been deleted, after the first alarm was deleted
\* and the second alarm and webhook were updated: the entries left were
\* switched off by the updates and carry the stamps of their last firing
C36_Witness ==
    /\ pc = "readSensors"
    /\ response.op = "handleDeleteWebhook"
    /\ response.code = 200
    /\ Len(alarms) = 1
    /\ alarms[1].id = "alarm_2"
    /\ ~alarms[1].enabled
    /\ alarms[1].lastTriggered # 0
    /\ Len(webhooks) = 1
    /\ webhooks[1].id = "hook_2"
    /\ ~webhooks[1].enabled
    /\ webhooks[1].lastUpdate # 0
    /\ webhooks[1].lastUpdate # alarms[1].lastTriggered

(***************************************************************************)
(* Properties of the clock                                                 *)
(***************************************************************************)
\* C37: when the counter wrapped around between the stamp of an alarm or webhook
\* and the test of its cooldown or interval (the counter reads less than the
\* stamp; less than one period of real time has passed), the difference the
\* test computes is the real time that has passed since the stamp: the alarm
\* notifies exactly when its value is out of bounds and more than cooldownMs
\* has passed, the webhook is found due exactly when it is enabled, its interval
\* is not 0 and at least updateIntervalMs has passed.
C37_WrapAround ==
    [][/\ (pc = "checkAlarms") =>
             \A k \in 1..Len(evalLog') :
                LET e == evalLog'[k]
                    real == e.before.since
                IN  (e.evaluated /\ real # Never /\ real < ElapsedCap /\ e.elapsed > e.at) =>
                        /\ e.elapsed = real
                        /\ e.notified <=> (e.triggered /\ real > alarms[e.alarm].cooldownMs)
       /\ SchedulerPass =>
             \A i \in 1..Len(webhooks) :
                LET real == sent[i].since
                IN  (/\ real # Never /\ real < ElapsedCap
                     /\ clock < webhooks[i].lastUpdate
                     /\ \A j \in 1..(i - 1) : ~sent'[j].fired) =>
                        /\ USub(clock, webhooks[i].lastUpdate) = real
                        /\ sent'[i].fired <=>
                              (/\ webhooks[i].enabled
                               /\ webhooks[i].updateIntervalMs # 0
                               /\ real >= webhooks[i].updateIntervalMs)]_vars

\* an alarm has just notified cooldownMs + 1 after its last stamp, which was
\* taken before the counter wrapped around
C37_Witness ==
    /\ pc = "sendScheduledWebhooks"
    /\ \E k \in 1..Len(evalLog) :
          /\ evalLog[k].notified
          /\ evalLog[k].before.since = MaxCooldown + 1
          /\ evalLog[k].elapsed > evalLog[k].at
          /\ alarms[evalLog[k].alarm].cooldownMs = MaxCooldown

(***************************************************************************)
(* Properties of the loop and the store                                    *)
(***************************************************************************)
\* a step of the loop after handleClient (a reset is no such step)
TickStep == pc \in {"readSensors", "checkAlarms", "sendScheduledWebhooks"} /\ pc' # "setup"

\* what saveConfiguration would write for the arrays: their lengths, order and
\* persisted fields
Persisted(sensors, als, whs) ==
    <<[i \in 1..Len(sensors) |-> SensorRec(sensors[i])],
      [i \in 1..Len(als) |-> AlarmRec(als[i])],
      [i \in 1..Len(whs) |-> WebhookRec(whs[i])]>>

\* C38: sampling, evaluation and dispatch leave the store, and the lengths,
\* order and persisted fields of the three arrays, as they were: sampling
\* changes only the cached readings and lastReading, evaluation only
\* lastTriggered, dispatch only lastUpdate.  The store changes only in a step
\* that serves a mutation with 200, or in a setup that found the store without
\* sensors and registered at least one from the bus.
C38_TicksNeverWriteStore ==
    [][/\ TickStep =>
             /\ prefs' = prefs
             /\ Persisted(ds18b20List, alarms, webhooks)'
                   = Persisted(ds18b20List, alarms, webhooks)
       /\ (TickStep /\ pc = "readSensors") => UNCHANGED <<alarms, webhooks>>
       /\ (TickStep /\ pc = "checkAlarms") =>
             /\ UNCHANGED <<ds18b20List, webhooks, readings>>
             /\ \A i \in 1..Len(alarms) :
                   alarms'[i] = [alarms[i] EXCEPT !.lastTriggered = alarms'[i].lastTriggered]
       /\ (TickStep /\ pc = "sendScheduledWebhooks") =>
             /\ UNCHANGED <<ds18b20List, alarms, readings>>
             /\ \A i \in 1..Len(webhooks) :
                   webhooks'[i] = [webhooks[i] EXCEPT !.lastUpdate = webhooks'[i].lastUpdate]
       /\ prefs' # prefs =>
             \/ /\ pc = "handleClient"
                /\ response'.op \in MutationOps
                /\ response'.code = 200
             \/ /\ pc = "setup"
                /\ Len(loadSensors(prefs)) = 0
                /\ Len(ds18b20List') > 0]_vars

\* a dispatch has just fired, after a sampling that cached a bus temperature and
\* an evaluation that stamped the alarm; the store is the one the device booted
\* with
C38_Witness ==
    /\ pc = "handleClient"
    /\ prefs = DeviceStore
    /\ Len(ds18b20List) = 2
    /\ ds18b20List[2].lastReading = 31
    /\ alarms[1].lastTriggered # 0
    /\ webhooks[1].lastUpdate # 0
    /\ sent[1].fired

(***************************************************************************)
(* Properties of the sensors' enabled flag                                 *)
(***************************************************************************)
\* C39: on a device that first booted with an empty store, every registered
\* sensor is enabled, and no sensor record the store counts says otherwise,
\* whatever requests, loop iterations, scans and restarts have happened.
C39_SensorsStayEnabled ==
    /\ \A i \in 1..Len(ds18b20List) : ds18b20List[i].enabled
    /\ \A i \in 1..prefs.ds18Count :
          i \in DOMAIN prefs.ds => prefs.ds[i].en \in {Absent, Some(TRUE)}

\* a rename has just been served on a device that holds a sensor registered by
\* the startup scan and a sensor added by a request, both stored
C39_Witness ==
    /\ pc = "readSensors"
    /\ response.op = "handleUpdateDS18B20"
    /\ response.code = 200
    /\ Len(ds18b20List) = 2
    /\ ds18b20List[1].id = SeedId(1)
    /\ ds18b20List[2].id = "pool_temp"
    /\ ds18b20List[2].name = "Pool"
    /\ prefs.ds18Count = 2
    /\ prefs.ds[1].en = Some(TRUE)
    /\ prefs.ds[2].en = Some(TRUE)

====
